---- MODULE Spec2Model ----
(***************************************************************************)
(* Model of the graduation-statistics ETL pipeline:                         *)
(*   ExcelExtractor -> DataCleaner -> RegionalFilter ->                     *)
(*   DataQualityValidator -> CSVLoader, sequenced by ETLPipeline.           *)
(*                                                                          *)
(* Text is a tuple of one-character strings, a cell value is a record       *)
(* [k, s, n] (k = "nan" | "str" | "num"), numbers are stored in sixteenths  *)
(* so that medians, quartiles and 1.5*IQR stay exact, and a dataset is a    *)
(* record of column names, column dtypes, row labels (the pandas index)     *)
(* and rows.                                                                *)
(***************************************************************************)
EXTENDS Integers, Sequences, FiniteSets, TLC

(***************************************************************************)
(* Bounds of the model.                                                     *)
(***************************************************************************)
MaxRows == 2
MaxCalls == 1
MaxNameLen == 3
MaxPipelines == 2

(***************************************************************************)
(* Text.                                                                    *)
(***************************************************************************)
\* The characters the model uses, in code-point order.
Alphabet ==
  << " ", "!", "-", ".", "0", "1", "2", "3", "4", "5", "6", "7", "8", "9",
     "A", "B", "C", "D", "E", "F", "G", "H", "I", "J", "K", "L", "M",
     "N", "O", "P", "Q", "R", "S", "T", "U", "V", "W", "X", "Y", "Z", "_",
     "a", "b", "c", "d", "e", "f", "g", "h", "i", "j", "k", "l", "m",
     "n", "o", "p", "q", "r", "s", "t", "u", "v", "w", "x", "y", "z",
     "Í", "Ó", "í", "ó" >>

Uppers ==
  << "A", "B", "C", "D", "E", "F", "G", "H", "I", "J", "K", "L", "M",
     "N", "O", "P", "Q", "R", "S", "T", "U", "V", "W", "X", "Y", "Z", "Í", "Ó" >>

Lowers ==
  << "a", "b", "c", "d", "e", "f", "g", "h", "i", "j", "k", "l", "m",
     "n", "o", "p", "q", "r", "s", "t", "u", "v", "w", "x", "y", "z", "í", "ó" >>

Digits == << "0", "1", "2", "3", "4", "5", "6", "7", "8", "9" >>

Range(s) == { s[i] : i \in 1..Len(s) }

SpaceChars == { " " }
DigitChars == Range(Digits)
LetterChars == Range(Uppers) \cup Range(Lowers)
WordChars == LetterChars \cup DigitChars \cup { "_" }

PosIn(c, t) == CHOOSE i \in 1..Len(t) : t[i] = c

\* The sequence f with its elements worked out: a function written
\* [i \in 1..n |-> e] works e out again at every application
AsSeq(f) == f \o <<>>

LowerChar(c) == IF c \in Range(Uppers) THEN Lowers[PosIn(c, Uppers)] ELSE c
UpperChar(c) == IF c \in Range(Lowers) THEN Uppers[PosIn(c, Lowers)] ELSE c

\* str.lower()
Lower(s) == AsSeq([ i \in 1..Len(s) |-> LowerChar(s[i]) ])

\* str.title(): a letter is upper-cased after a non-letter, lower-cased after a letter
Title(s) ==
  AsSeq([ i \in 1..Len(s) |->
      IF i = 1 \/ s[i-1] \notin LetterChars THEN UpperChar(s[i]) ELSE LowerChar(s[i]) ])

\* `sub in s`
Contains(s, sub) ==
  \E i \in 0..(Len(s) - Len(sub)) : SubSeq(s, i + 1, i + Len(sub)) = sub

RECURSIVE LStrip(_, _)
LStrip(s, chars) ==
  IF s # <<>> /\ Head(s) \in chars THEN LStrip(Tail(s), chars) ELSE s

RECURSIVE RStrip(_, _)
RStrip(s, chars) ==
  IF s # <<>> /\ s[Len(s)] \in chars THEN RStrip(SubSeq(s, 1, Len(s) - 1), chars) ELSE s

\* str.strip(chars)
Strip(s, chars) == RStrip(LStrip(s, chars), chars)

\* re.sub('[chars]+', repl, s): every maximal run of chars becomes one repl
RECURSIVE SubRuns(_, _, _)
SubRuns(s, chars, repl) ==
  IF s = <<>> THEN <<>>
  ELSE IF Head(s) \in chars
       THEN <<repl>> \o SubRuns(LStrip(s, chars), chars, repl)
       ELSE <<Head(s)>> \o SubRuns(Tail(s), chars, repl)

\* re.sub('[^\w\s]', repl, s): every other character becomes repl
SubSpecials(s, repl) ==
  AsSeq([ i \in 1..Len(s) |-> IF s[i] \in WordChars \cup SpaceChars THEN s[i] ELSE repl ])

\* Python's order of strings (code points, shorter prefix first)
RECURSIVE StrLess(_, _)
StrLess(a, b) ==
  IF b = <<>> THEN FALSE
  ELSE IF a = <<>> THEN TRUE
  ELSE IF Head(a) = Head(b) THEN StrLess(Tail(a), Tail(b))
  ELSE PosIn(Head(a), Alphabet) < PosIn(Head(b), Alphabet)

\* str(n) of an integer
RECURSIVE IntToStr(_)
IntToStr(n) ==
  IF n < 0 THEN << "-" >> \o IntToStr(-n)
  ELSE IF n < 10 THEN << Digits[n + 1] >>
  ELSE IntToStr(n \div 10) \o << Digits[(n % 10) + 1] >>

IsDigits(s) == s # <<>> /\ \A i \in 1..Len(s) : s[i] \in DigitChars

RECURSIVE ParseDigits(_)
ParseDigits(s) ==
  IF s = <<>> THEN 0
  ELSE 10 * ParseDigits(SubSeq(s, 1, Len(s) - 1)) + (PosIn(s[Len(s)], Digits) - 1)

(***************************************************************************)
(* Cell values and datasets (pandas DataFrame).                             *)
(***************************************************************************)
\* Numbers are held in units of 1/Scale.
Scale == 2 * 8

NaN == [k |-> "nan", s |-> <<>>, n |-> 0]
Str(s) == [k |-> "str", s |-> s, n |-> 0]
Num(n) == [k |-> "num", s |-> <<>>, n |-> n]
IntVal(i) == Num(i * Scale)

IsNa(v) == v.k = "nan"

NumericDtypes == { "int64", "float64", "Int64" }

\* `None` passed where a DataFrame is expected
NoneData == [none |-> TRUE, cols |-> <<>>, dtypes |-> <<>>, index |-> <<>>, rows |-> <<>>]

Frame(cols, dtypes, index, rows) ==
  [none |-> FALSE, cols |-> cols, dtypes |-> dtypes, index |-> index, rows |-> rows]

\* The dataset d with its columns, labels and rows worked out
Concrete(d) ==
  IF d.none THEN d
  ELSE Frame(AsSeq(d.cols), AsSeq(d.dtypes), AsSeq(d.index),
             AsSeq([ i \in 1..Len(d.rows) |-> AsSeq(d.rows[i]) ]))

\* pd.DataFrame()
EmptyFrame == Frame(<<>>, <<>>, <<>>, <<>>)

NRows(d) == Len(d.index)
NCols(d) == Len(d.cols)

\* DataFrame.empty: some axis has length 0
IsEmpty(d) == NRows(d) = 0 \/ NCols(d) = 0

\* RangeIndex(n)
RangeIndex(n) == [ i \in 1..n |-> i - 1 ]

Column(d, j) == [ i \in 1..NRows(d) |-> d.rows[i][j] ]

HasCol(d, name) == \E j \in 1..NCols(d) : d.cols[j] = name

ColPos(d, name) == CHOOSE j \in 1..NCols(d) : d.cols[j] = name

HasDupNames(d) == \E i, j \in 1..NCols(d) : i < j /\ d.cols[i] = d.cols[j]

\* d[name] = vals, with the dtype the assignment gives the column
SetColumn(d, j, vals, dtype) ==
  [ d EXCEPT !.dtypes[j] = dtype,
             !.rows = [ i \in 1..NRows(d) |-> [ d.rows[i] EXCEPT ![j] = vals[i] ] ] ]

\* The positions of a boolean sequence, from i on, that hold TRUE, in order
TruePositions(mask, i) ==
  SelectSeq([ k \in 1..(Len(mask) - i + 1) |-> k + i - 1 ], LAMBDA k : mask[k])

\* The rows at the given positions, with their labels
TakeRows(d, ps) ==
  [ d EXCEPT !.index = [ k \in 1..Len(ps) |-> d.index[ps[k]] ],
             !.rows = [ k \in 1..Len(ps) |-> d.rows[ps[k]] ] ]

\* The columns at the given positions
TakeCols(d, js) ==
  [ d EXCEPT !.cols = [ k \in 1..Len(js) |-> d.cols[js[k]] ],
             !.dtypes = [ k \in 1..Len(js) |-> d.dtypes[js[k]] ],
             !.rows = [ i \in 1..NRows(d) |-> [ k \in 1..Len(js) |-> d.rows[i][js[k]] ] ] ]

MissingCount(d, j) == Cardinality({ i \in 1..NRows(d) : IsNa(d.rows[i][j]) })

\* DataFrame.drop_duplicates(): the first of every group of equal rows is kept
DropDuplicates(d) ==
  TakeRows(d, TruePositions(
    [ i \in 1..NRows(d) |-> ~ \E j \in 1..(i - 1) : d.rows[j] = d.rows[i] ], 1))

(***************************************************************************)
(* Outcome of a call: a value, or a raised exception.  An exception is the  *)
(* chain of its kinds, outermost first: <<"ETLError", "OSError">> is an     *)
(* ETLError whose original_error is an OSError.                             *)
(***************************************************************************)
DomainErrors ==
  { "ETLError", "ExtractionError", "TransformationError", "LoadingError",
    "ValidationError", "ConfigurationError", "DataQualityError" }

NoExc == <<>>

IsDomain(e) == e # NoExc /\ Head(e) \in DomainErrors

Ok(d) == [ok |-> TRUE, data |-> Concrete(d), err |-> NoExc, step |-> ""]
Raise(e, step) == [ok |-> FALSE, data |-> NoneData, err |-> e, step |-> step]

\* raise Kind(..., original_error=e)
Wrap(kind, e) == <<kind>> \o e

(***************************************************************************)
(* DataCleaner (src/data_pipeline/transformers/data_cleaner.py).            *)
(***************************************************************************)
\* The words of _text_columns_pattern
TextColumnsPattern ==
  { <<"n", "o", "m", "b", "r", "e">>,
    <<"t", "i", "t", "u", "l", "o">>,
    <<"c", "a", "r", "r", "e", "r", "a">>,
    <<"i", "n", "s", "t", "i", "t", "u", "c", "i", "o", "n">>,
    <<"r", "e", "g", "i", "o", "n">>,
    <<"p", "r", "o", "v", "i", "n", "c", "i", "a">>,
    <<"c", "o", "m", "u", "n", "a">>,
    <<"a", "r", "e", "a">>,
    <<"m", "o", "d", "a", "l", "i", "d", "a", "d">>,
    <<"s", "e", "d", "e">> }

\* The words of _numeric_columns_pattern
NumericColumnsPattern ==
  { <<"c", "o", "d", "i", "g", "o">>,
    <<"c", "a", "n", "t", "i", "d", "a", "d">>,
    <<"a", "n", "o">>,
    <<"m", "e", "s">>,
    <<"e", "d", "a", "d">> }

\* re.search('.*(?:w1|w2|...).*', name.lower())
MatchesAny(name, words) ==
  LET lowered == Lower(name)
  IN  \E w \in words : Contains(lowered, w)

\* _identify_text_columns: by name, else by dtype
IsTextColumn(d, j) ==
  MatchesAny(d.cols[j], TextColumnsPattern) \/ d.dtypes[j] = "object"

\* _identify_numeric_columns: by name, else by dtype
IsNumericColumn(d, j) ==
  MatchesAny(d.cols[j], NumericColumnsPattern) \/ d.dtypes[j] \in NumericDtypes

\* r.then(F): the next step runs only when the previous one returned
Then(r, F(_)) == IF r.ok THEN F(r.data) ELSE r

\* A validate_input that only turns a null input away
CleanerValidateInputLax(d) == ~ d.none

\* validate_input
CleanerValidateInput(d) ==
  /\ ~ d.none
  /\ ~ IsEmpty(d)
  /\ NCols(d) # 0
  /\ NRows(d) # 0

\* A rewriting that leaves the underscores at the ends of the name
StandardNameUnstripped(name) ==
  SubRuns(SubRuns(SubSpecials(Lower(name), "_"), SpaceChars, "_"), {"_"}, "_")

\* One column name, as _standardize_column_names rewrites it
StandardName(name) ==
  Strip(SubRuns(SubRuns(SubSpecials(Lower(name), "_"), SpaceChars, "_"), {"_"}, "_"), {"_"})

StandardizeColumnNames(d) ==
  Ok([ d EXCEPT !.cols = [ j \in 1..NCols(d) |-> StandardName(d.cols[j]) ] ])

\* Decimal digits of f/Scale, 0 < f < Scale, without trailing zeros
FractionDigits(f) ==
  LET q == (f * 10000) \div Scale
      four == << Digits[(q \div 1000) + 1], Digits[((q \div 100) % 10) + 1],
                 Digits[((q \div 10) % 10) + 1], Digits[(q % 10) + 1] >>
  IN  RStrip(four, {"0"})

\* str(x) of a number of the given dtype
RECURSIVE NumToStr(_, _)
NumToStr(n, dtype) ==
  IF n < 0 THEN << "-" >> \o NumToStr(-n, dtype)
  ELSE IF dtype \in { "int64", "Int64" } THEN IntToStr(n \div Scale)
  ELSE IntToStr(n \div Scale) \o << "." >> \o
       (IF n % Scale = 0 THEN << "0" >> ELSE FractionDigits(n % Scale))

\* One cell of Series.astype(str)
AsStr(v, dtype) ==
  CASE v.k = "str" -> v.s
    [] v.k = "nan" -> << "n", "a", "n" >>
    [] v.k = "num" -> NumToStr(v.n, dtype)

NullStrings ==
  { <<"n", "a", "n">>, <<"N", "o", "n", "e">>, <<"n", "u", "l", "l">>, <<"N", "U", "L", "L">>, <<"N", "a", "N">> }

TitleWords == { <<"n", "o", "m", "b", "r", "e">>, <<"t", "i", "t", "u", "l", "o">>, <<"c", "a", "r", "r", "e", "r", "a">> }

\* One cell of a text column after _clean_text_columns
CleanTextValue(v, name, dtype) ==
  LET s == AsStr(v, dtype)
      t == SubRuns(Strip(s, SpaceChars), SpaceChars, " ")
  IN  IF s \in NullStrings THEN NaN
      ELSE Str(IF MatchesAny(name, TitleWords) THEN Title(t) ELSE t)

\* With two columns of one name, d[col] is a DataFrame: it has no .dtype
\* (AttributeError in _identify_text_columns) and `if mask.any()` is ambiguous
\* (ValueError).
CleanTextColumns(d) ==
  IF HasDupNames(d)
  THEN Raise(Wrap("TransformationError",
               << IF \E i, j \in 1..NCols(d) :
                       /\ i # j
                       /\ d.cols[i] = d.cols[j]
                       /\ ~ MatchesAny(d.cols[i], TextColumnsPattern)
                  THEN "AttributeError" ELSE "ValueError" >>), "text_cleaning")
  ELSE LET text == AsSeq([ j \in 1..NCols(d) |-> IsTextColumn(d, j) ])
       IN  Ok([ d EXCEPT
             !.dtypes = [ j \in 1..NCols(d) |-> IF text[j] THEN "object" ELSE d.dtypes[j] ],
             !.rows = [ i \in 1..NRows(d) |-> [ j \in 1..NCols(d) |->
                          IF text[j]
                          THEN CleanTextValue(d.rows[i][j], d.cols[j], d.dtypes[j])
                          ELSE d.rows[i][j] ] ] ])

\* The non-missing cells of a sequence of cells
NotNa(vals) == SelectSeq(vals, LAMBDA v : ~ IsNa(v))

\* float(x) of a cell, as nanmedian's astype('f8') reads a text cell
AsFloat(v) == IF v.k = "str" THEN ParseDigits(v.s) * Scale ELSE v.n

\* A cell astype('f8') cannot read
NotFloatable(v) == v.k = "str" /\ ~ IsDigits(v.s)

RECURSIVE InsertSorted(_, _)
InsertSorted(x, sorted) ==
  IF sorted = <<>> \/ x <= Head(sorted) THEN <<x>> \o sorted
  ELSE <<Head(sorted)>> \o InsertSorted(x, Tail(sorted))

RECURSIVE SortNums(_)
SortNums(xs) == IF xs = <<>> THEN <<>> ELSE InsertSorted(Head(xs), SortNums(Tail(xs)))

\* Series.median() over the non-missing cells (at least one)
Median(vals) ==
  LET xs == SortNums([ i \in 1..Len(NotNa(vals)) |-> AsFloat(NotNa(vals)[i]) ])
      m == Len(xs)
  IN  IF m % 2 = 1 THEN xs[(m + 1) \div 2] ELSE (xs[m \div 2] + xs[(m \div 2) + 1]) \div 2

\* Series.mode()[0]: the most frequent non-missing text, the smallest on a tie
Count(vals, v) == Cardinality({ i \in 1..Len(vals) : vals[i] = v })

Mode(vals) ==
  LET present == Range(NotNa(vals))
      best == { v \in present : \A w \in present : Count(vals, w) <= Count(vals, v) }
  IN  CHOOSE v \in best : \A w \in best : w = v \/ StrLess(v.s, w.s)

Cantidad == <<"c", "a", "n", "t", "i", "d", "a", "d">>
Unknown == <<"U", "n", "k", "n", "o", "w", "n">>

\* A threshold that takes a column exactly 90% missing as well
NinetyOrMore(d, j) == MissingCount(d, j) * 100 >= 90 * NRows(d)

\* Strictly more than 90% of the column is missing
MostlyMissing(d, j) == MissingCount(d, j) * 100 > 90 * NRows(d)

\* A _handle_missing_values that drops no column
MissingActionNoDrop(d, j) ==
  IF MissingCount(d, j) = 0 THEN "keep"
  ELSE IF d.dtypes[j] = "object" THEN "fill" ELSE "keep"

\* What _handle_missing_values does with column j: "keep", "drop", "fill", "raise"
MissingAction(d, j) ==
  IF MissingCount(d, j) = 0 THEN "keep"
  ELSE IF MostlyMissing(d, j) THEN "drop"
  ELSE IF IsNumericColumn(d, j)
       THEN IF Contains(Lower(d.cols[j]), Cantidad) THEN "fill"
            ELSE IF \E i \in 1..NRows(d) : NotFloatable(d.rows[i][j]) THEN "raise"
            ELSE "fill"
  ELSE IF d.dtypes[j] = "object" THEN "fill" ELSE "keep"

\* The value fillna() receives for column j
FillValue(d, j) ==
  IF IsNumericColumn(d, j)
  THEN IF Contains(Lower(d.cols[j]), Cantidad) THEN Num(0) ELSE Num(Median(Column(d, j)))
  ELSE IF NotNa(Column(d, j)) # <<>> THEN Mode(Column(d, j)) ELSE Str(Unknown)

HandleMissingValues(d) ==
  LET action == AsSeq([ j \in 1..NCols(d) |-> MissingAction(d, j) ])
      value == AsSeq([ j \in 1..NCols(d) |->
                 IF action[j] = "fill" THEN FillValue(d, j) ELSE NaN ])
      filled == [ d EXCEPT !.rows = [ i \in 1..NRows(d) |-> [ j \in 1..NCols(d) |->
                    IF action[j] = "fill" /\ IsNa(d.rows[i][j])
                    THEN value[j] ELSE d.rows[i][j] ] ] ]
  IN  IF \E j \in 1..NCols(d) : action[j] = "raise"
      THEN Raise(Wrap("TransformationError", <<"TypeError">>), "missing_values")
      ELSE Ok(TakeCols(filled,
                TruePositions([ j \in 1..NCols(d) |-> action[j] # "drop" ], 1)))

\* One cell of pd.to_numeric(errors='coerce')
ToNumeric(v) ==
  CASE v.k = "num" -> v
    [] v.k = "nan" -> NaN
    [] v.k = "str" -> IF IsDigits(v.s) THEN IntVal(ParseDigits(v.s)) ELSE NaN

\* A number cell that is a float: in a float column, or put into a text
\* column by fillna(median)
IsFloatCell(v, dtype) ==
  v.k = "num" /\ dtype \in { "float64", "object" }

IntegerWords == { <<"a", "n", "o">>, <<"m", "e", "s">>, <<"c", "a", "n", "t", "i", "d", "a", "d">>, <<"c", "o", "d", "i", "g", "o">> }

\* Column j after the numeric half of _standardize_data_types: <<cells, dtype>>
NumericStandard(d, j) ==
  LET vals == [ i \in 1..NRows(d) |-> ToNumeric(d.rows[i][j]) ]
      dtype == IF \E i \in 1..NRows(d) :
                     IsNa(vals[i]) \/ IsFloatCell(d.rows[i][j], d.dtypes[j])
               THEN "float64" ELSE "int64"
      zeroed == [ i \in 1..NRows(d) |-> IF IsNa(vals[i]) THEN Num(0) ELSE vals[i] ]
  IN  IF /\ MatchesAny(d.cols[j], IntegerWords)
         /\ \A i \in 1..NRows(d) : zeroed[i].n % Scale = 0
      THEN << zeroed, "Int64" >>
      ELSE << vals, dtype >>

\* Column j after the text half: astype(str), then 'nan' back to missing
TextStandard(vals, dtype) ==
  [ i \in 1..Len(vals) |->
      IF AsStr(vals[i], dtype) = << "n", "a", "n" >> THEN NaN ELSE Str(AsStr(vals[i], dtype)) ]

StandardizeDataTypes(d) ==
  LET numeric == AsSeq([ j \in 1..NCols(d) |->
                     IF IsNumericColumn(d, j) THEN NumericStandard(d, j)
                     ELSE << Column(d, j), d.dtypes[j] >> ])
      text == AsSeq([ j \in 1..NCols(d) |->
                  IF MatchesAny(d.cols[j], TextColumnsPattern) \/ numeric[j][2] = "object"
                  THEN << TextStandard(numeric[j][1], numeric[j][2]), "object" >>
                  ELSE numeric[j] ])
  IN  Ok([ d EXCEPT !.dtypes = [ j \in 1..NCols(d) |-> text[j][2] ],
                    !.rows = [ i \in 1..NRows(d) |-> [ j \in 1..NCols(d) |-> text[j][1][i] ] ] ])

\* A _remove_duplicates that drops nothing
KeepDuplicates(d) == Ok(d)

RemoveDuplicates(d) == Ok(DropDuplicates(d))

\* Series.quantile(k/4), linear interpolation, over sorted non-missing numbers
Quartile(xs, k) ==
  LET p == k * (Len(xs) - 1)
      lo == (p \div 4) + 1
  IN  IF p % 4 = 0 THEN xs[lo] ELSE xs[lo] + ((xs[lo + 1] - xs[lo]) * (p % 4)) \div 4

ExemptFromOutliers == { <<"c", "o", "d", "i", "g", "o">>, <<"a", "n", "o">> }

\* The columns _handle_outliers looks at
OutlierColumn(d, j) == IsNumericColumn(d, j) /\ d.cols[j] \notin ExemptFromOutliers

\* <<lower_bound, upper_bound>> of column j (it has a non-missing number)
OutlierBounds(d, j) ==
  LET cells == NotNa(Column(d, j))
      xs == SortNums([ i \in 1..Len(cells) |-> cells[i].n ])
      Q1 == Quartile(xs, 1)
      Q3 == Quartile(xs, 3)
      IQR == Q3 - Q1
  IN  << Q1 - (3 * IQR) \div 2, Q3 + (3 * IQR) \div 2 >>

IsOutlier(v, bounds) == v.k = "num" /\ (v.n < bounds[1] \/ v.n > bounds[2])

\* A capping that leaves the values above the upper bound
CappedLowOnly(v, bounds) ==
  IF v.k # "num" THEN v
  ELSE IF v.n < bounds[1] THEN Num(bounds[1])
  ELSE v

Capped(v, bounds) ==
  IF v.k # "num" THEN v
  ELSE IF v.n < bounds[1] THEN Num(bounds[1])
  ELSE IF v.n > bounds[2] THEN Num(bounds[2])
  ELSE v

HasOutliers(d, j) ==
  /\ OutlierColumn(d, j)
  /\ NotNa(Column(d, j)) # <<>>
  /\ \E i \in 1..NRows(d) : IsOutlier(d.rows[i][j], OutlierBounds(d, j))

\* quantile() of a column of text raises TypeError
HandleOutliers(d) ==
  IF \E j \in 1..NCols(d) :
       OutlierColumn(d, j) /\ \E i \in 1..NRows(d) : d.rows[i][j].k = "str"
  THEN Raise(Wrap("TransformationError", <<"TypeError">>), "outlier_handling")
  ELSE LET capped == AsSeq([ j \in 1..NCols(d) |-> HasOutliers(d, j) ])
           bounds == AsSeq([ j \in 1..NCols(d) |->
                       IF capped[j] THEN OutlierBounds(d, j) ELSE << 0, 0 >> ])
       IN  Ok([ d EXCEPT
             !.dtypes = [ j \in 1..NCols(d) |-> IF capped[j] THEN "float64" ELSE d.dtypes[j] ],
             !.rows = [ i \in 1..NRows(d) |-> [ j \in 1..NCols(d) |->
                          IF capped[j] THEN Capped(d.rows[i][j], bounds[j])
                          ELSE d.rows[i][j] ] ] ])

\* DataCleaner.transform
CleanerTransform(d) ==
  IF ~ CleanerValidateInput(d)
  THEN Raise(<<"TransformationError">>, "input_validation")
  ELSE Then(Then(Then(Then(Then(StandardizeColumnNames(d),
         CleanTextColumns), HandleMissingValues), StandardizeDataTypes),
         RemoveDuplicates), HandleOutliers)

(***************************************************************************)
(* RegionalFilter (src/data_pipeline/transformers/regional_filter.py).      *)
(***************************************************************************)
LosRios == <<"l", "o", "s", " ", "r", "i", "o", "s">>
LosRiosAccent == <<"l", "o", "s", " ", "r", "í", "o", "s">>

RegionSpellings ==
  << <<"l", "o", "s", " ", "r", "í", "o", "s">>,
     <<"l", "o", "s", " ", "r", "i", "o", "s">>,
     <<"d", "e", " ", "l", "o", "s", " ", "r", "í", "o", "s">>,
     <<"d", "e", " ", "l", "o", "s", " ", "r", "i", "o", "s">>,
     <<"r", "e", "g", "i", "ó", "n", " ", "d", "e", " ", "l", "o", "s", " ", "r", "í", "o", "s">> >>

\* _regional_variations as __init__ builds it: two keys, a list each
InitialVariations == [ key \in { LosRios, LosRiosAccent } |-> RegionSpellings ]

\* The patterns of _find_region_column, tried in this order on every column
RegionPatterns == << <<"r", "e", "g", "i", "o", "n">>, <<"r", "e", "g">>, <<"a", "d", "m", "i", "n", "i", "s", "t", "r", "a", "t", "i", "v", "a">> >>

IsRegionName(name) ==
  LET lowered == Lower(name)
  IN  \E k \in 1..Len(RegionPatterns) : Contains(lowered, RegionPatterns[k])

\* _find_region_column: the position of the first matching column, 0 for None
FindRegionColumn(d) ==
  IF \E j \in 1..NCols(d) : IsRegionName(d.cols[j])
  THEN CHOOSE j \in 1..NCols(d) :
         IsRegionName(d.cols[j]) /\ \A i \in 1..(j - 1) : ~ IsRegionName(d.cols[i])
  ELSE 0

\* A validate_input that does not look for the region column
FilterValidateInputLax(d) == ~ d.none /\ ~ IsEmpty(d)

\* validate_input
FilterValidateInput(d) ==
  LET j == FindRegionColumn(d)
  IN  /\ ~ d.none
      /\ ~ IsEmpty(d)
      /\ j # 0
      /\ \E i \in 1..NRows(d) : ~ IsNa(d.rows[i][j])

\* The list `variations` of one call: the table's list for the key (or a new
\* list holding the target), with the target appended
VariationsFor(table, target) ==
  LET key == Strip(Lower(target), SpaceChars)
  IN  Append(IF key \in DOMAIN table THEN table[key] ELSE <<target>>, target)

\* The table after the call: .get() returned the table's own list, so the
\* append grew it
VariationsAfter(table, target) ==
  LET key == Strip(Lower(target), SpaceChars)
  IN  IF key \in DOMAIN table THEN [ table EXCEPT ![key] = Append(@, target) ] ELSE table

\* One cell of Series.str.lower().str.strip().str.contains(variation.lower(), na=False)
CellContains(v, variation) ==
  v.k = "str" /\ Contains(Strip(Lower(v.s), SpaceChars), Lower(variation))

\* A mask that selects every row
RowMaskAll(d, j, variations) == [ i \in 1..NRows(d) |-> TRUE ]

\* The mask starts as pd.Series([False] * len(data)), labelled 0..len-1, and
\* `mask | variation_mask` aligns the two on their labels.  A label the left
\* operand lacks is NaN there, and NaN | x is False; from the second variation
\* on the mask has every label of the data.
RowMask(d, j, variations) ==
  AsSeq([ i \in 1..NRows(d) |->
      \/ /\ d.index[i] \in Range(RangeIndex(NRows(d)))
         /\ CellContains(d.rows[i][j], variations[1])
      \/ \E k \in 2..Len(variations) : CellContains(d.rows[i][j], variations[k]) ])

\* _filter_by_region; .str of a column that is not text raises AttributeError
FilterByRegion(d, target, table) ==
  LET j == FindRegionColumn(d)
  IN  IF j = 0 THEN Raise(<<"TransformationError">>, "region_column_detection")
      ELSE IF d.dtypes[j] # "object" THEN Raise(<<"AttributeError">>, "")
      ELSE Ok(TakeRows(d, TruePositions(RowMask(d, j, VariationsFor(table, target)), 1)))

\* The table after _filter_by_region: it is touched once a region column is found
TableAfterFilter(d, target, table) ==
  IF FindRegionColumn(d) = 0 THEN table ELSE VariationsAfter(table, target)

\* validate_criteria; criteria is a sequence of <<key, value>> pairs
RegionKey == <<"r", "e", "g", "i", "o", "n">>

HasKey(criteria, key) == \E k \in 1..Len(criteria) : criteria[k][1] = key

ValueOf(criteria, key) == criteria[CHOOSE k \in 1..Len(criteria) : criteria[k][1] = key][2]

ValidateCriteria(criteria) ==
  /\ criteria # <<>>
  /\ HasKey(criteria, RegionKey) =>
       /\ ValueOf(criteria, RegionKey).k = "str"
       /\ Strip(ValueOf(criteria, RegionKey).s, SpaceChars) # <<>>

\* filtered_data[filtered_data[key] == value] for the other keys, in order
RECURSIVE ApplyOtherCriteria(_, _)
ApplyOtherCriteria(d, criteria) ==
  IF criteria = <<>> THEN d
  ELSE LET key == Head(criteria)[1]
           value == Head(criteria)[2]
       IN  IF key # RegionKey /\ HasCol(d, key)
           THEN ApplyOtherCriteria(
                  TakeRows(d, TruePositions(
                    [ i \in 1..NRows(d) |-> d.rows[i][ColPos(d, key)] = value ], 1)),
                  Tail(criteria))
           ELSE ApplyOtherCriteria(d, Tail(criteria))

\* RegionalFilter.filter
FilterFilter(d, criteria, table) ==
  IF ~ ValidateCriteria(criteria)
  THEN Raise(<<"TransformationError">>, "criteria_validation")
  ELSE LET byRegion == IF HasKey(criteria, RegionKey)
                       THEN FilterByRegion(d, ValueOf(criteria, RegionKey).s, table)
                       ELSE Ok(d)
       IN  IF byRegion.ok THEN Ok(ApplyOtherCriteria(byRegion.data, criteria))
           ELSE IF IsDomain(byRegion.err) THEN byRegion
           ELSE Raise(Wrap("TransformationError", byRegion.err), "filter_application")

TableAfterFilterFilter(d, criteria, table) ==
  IF ValidateCriteria(criteria) /\ HasKey(criteria, RegionKey)
  THEN TableAfterFilter(d, ValueOf(criteria, RegionKey).s, table)
  ELSE table

\* sorted() of the region values fails on a column that mixes text and numbers
AvailableRegionsRaises(d) ==
  /\ FindRegionColumn(d) # 0
  /\ \E i, k \in 1..NRows(d) :
       /\ d.rows[i][FindRegionColumn(d)].k = "str"
       /\ d.rows[k][FindRegionColumn(d)].k = "num"

\* RegionalFilter.transform
FilterTransform(d, target, table) ==
  IF ~ FilterValidateInput(d)
  THEN Raise(<<"TransformationError">>, "input_validation")
  ELSE LET r == FilterFilter(d, << << RegionKey, Str(target) >> >>, table)
       IN  IF r.ok /\ NRows(r.data) = 0 /\ AvailableRegionsRaises(d)
           THEN Raise(Wrap("TransformationError", <<"TypeError">>), "regional_filtering")
           ELSE r

TableAfterTransform(d, target, table) ==
  IF FilterValidateInput(d)
  THEN TableAfterFilterFilter(d, << << RegionKey, Str(target) >> >>, table)
  ELSE table

(***************************************************************************)
(* DataQualityValidator                                                     *)
(* (src/data_pipeline/validators/data_quality_validator.py).                *)
(***************************************************************************)
AnoTitulacion == <<"a", "n", "o", "_", "t", "i", "t", "u", "l", "a", "c", "i", "o", "n">>
CantidadTitulados == <<"c", "a", "n", "t", "i", "d", "a", "d", "_", "t", "i", "t", "u", "l", "a", "d", "o", "s">>

\* _validation_rules
YearMin == 1990
YearMax == 2030
QuantityMin == 0
QuantityMax == 10000
RequiredColumns == << RegionKey, AnoTitulacion >>

\* _expected_columns: name -> expected kind
ExpectedColumns ==
  << << <<"c", "o", "d", "i", "g", "o", "_", "i", "n", "s", "t", "i", "t", "u", "c", "i", "o", "n">>, "string" >>,
     << <<"n", "o", "m", "b", "r", "e", "_", "i", "n", "s", "t", "i", "t", "u", "c", "i", "o", "n">>, "string" >>,
     << RegionKey, "string" >>,
     << <<"c", "a", "r", "r", "e", "r", "a">>, "string" >>,
     << AnoTitulacion, "integer" >>,
     << CantidadTitulados, "integer" >> >>

\* The sample _validate_records looks at
SampleSize == 1000

Min(a, b) == IF a <= b THEN a ELSE b

\* _validate_structure: the messages, as <<rule, count>>
ValidateStructure(d) ==
  IF IsEmpty(d) THEN << << "empty", 0 >> >>
  ELSE LET absent(k) == ~ HasCol(d, RequiredColumns[k])
           similar(k) == \E j \in 1..NCols(d) :
                            Contains(Lower(d.cols[j]), Lower(RequiredColumns[k]))
           near == SelectSeq(<<1, 2>>, LAMBDA k : absent(k) /\ similar(k))
           gone == SelectSeq(<<1, 2>>, LAMBDA k : absent(k) /\ ~ similar(k))
           blank == { j \in 1..NCols(d) : MissingCount(d, j) = NRows(d) }
       IN  [ k \in 1..Len(near) |-> << "required_similar", near[k] >> ]
           \o (IF gone # <<>> THEN << << "required_missing", Len(gone) >> >> ELSE <<>>)
           \o (IF blank # {} THEN << << "empty_columns", Cardinality(blank) >> >> ELSE <<>>)

\* An analysis that lists every column, those without a missing cell too
AnalyzeMissingValuesOfAll(d) ==
  [ j \in 1..NCols(d) |-> << d.cols[j], MissingCount(d, j) >> ]

\* _analyze_missing_values: <<column, count>> for the columns with a missing cell
AnalyzeMissingValues(d) ==
  LET js == TruePositions([ j \in 1..NCols(d) |-> MissingCount(d, j) > 0 ], 1)
  IN  [ k \in 1..Len(js) |-> << d.cols[js[k]], MissingCount(d, js[k]) >> ]

\* _validate_data_types: the expected columns whose dtype disagrees
ValidateDataTypes(d) ==
  SelectSeq(ExpectedColumns,
    LAMBDA e : /\ HasCol(d, e[1])
               /\ IF e[2] = "string" THEN d.dtypes[ColPos(d, e[1])] # "object"
                  ELSE d.dtypes[ColPos(d, e[1])] \notin NumericDtypes)

\* A range rule that has a lower bound only
BelowRange(d, name, lo, hi) ==
  { i \in 1..NRows(d) :
      LET v == d.rows[i][ColPos(d, name)]
      IN  v.k = "num" /\ v.n < lo * Scale }

\* The rows of column `name` outside [lo, hi] (a missing cell compares False)
OutOfRange(d, name, lo, hi) ==
  { i \in 1..NRows(d) :
      LET v == d.rows[i][ColPos(d, name)]
      IN  v.k = "num" /\ (v.n < lo * Scale \/ v.n > hi * Scale) }

\* The rows whose region is shorter than 3 characters or all digits
InvalidRegions(d) ==
  { i \in 1..NRows(d) :
      LET v == d.rows[i][ColPos(d, RegionKey)]
      IN  v.k = "str" /\ (Len(v.s) < 3 \/ IsDigits(v.s)) }

\* What makes _validate_business_rules raise: a number rule on text cells
\* (TypeError), .str on a column that is not text (AttributeError); "" if nothing
BusinessRulesRaise(d) ==
  IF HasCol(d, AnoTitulacion)
     /\ \E i \in 1..NRows(d) : d.rows[i][ColPos(d, AnoTitulacion)].k = "str"
  THEN "TypeError"
  ELSE IF HasCol(d, CantidadTitulados)
          /\ \E i \in 1..NRows(d) : d.rows[i][ColPos(d, CantidadTitulados)].k = "str"
  THEN "TypeError"
  ELSE IF HasCol(d, RegionKey) /\ d.dtypes[ColPos(d, RegionKey)] # "object"
  THEN "AttributeError"
  ELSE ""

\* _validate_business_rules: one count-bearing message per violated rule
ValidateBusinessRules(d) ==
  (IF HasCol(d, AnoTitulacion) /\ OutOfRange(d, AnoTitulacion, YearMin, YearMax) # {}
   THEN << << "invalid_years", Cardinality(OutOfRange(d, AnoTitulacion, YearMin, YearMax)) >> >>
   ELSE <<>>)
  \o (IF HasCol(d, CantidadTitulados)
         /\ OutOfRange(d, CantidadTitulados, QuantityMin, QuantityMax) # {}
      THEN << << "invalid_quantities",
                 Cardinality(OutOfRange(d, CantidadTitulados, QuantityMin, QuantityMax)) >> >>
      ELSE <<>>)
  \o (IF HasCol(d, RegionKey) /\ InvalidRegions(d) # {}
      THEN << << "invalid_regions", Cardinality(InvalidRegions(d)) >> >>
      ELSE <<>>)

\* _detect_duplicates
DetectDuplicates(d) == NRows(d) - NRows(DropDuplicates(d))

\* _validate_records: a sampled row counts when its dict has the key 'region',
\* which every row of a dataset with that column has; beyond the sample size
\* the rate is extrapolated
ValidateRecords(d) ==
  LET sample_size == Min(SampleSize, NRows(d))
      valid_count == IF HasCol(d, RegionKey) THEN sample_size ELSE 0
  IN  IF NRows(d) > sample_size
      THEN (NRows(d) * valid_count) \div sample_size
      ELSE valid_count

NoReport ==
  [ total_records |-> 0, valid_records |-> 0, invalid_records |-> 0,
    missing_values_by_column |-> <<>>, duplicate_records |-> 0,
    data_types_issues |-> <<>>, validation_errors |-> <<>>, none |-> TRUE ]

\* A report holding the counts alone
CountsReport(d) ==
  [ NoReport EXCEPT !.none = FALSE, !.total_records = NRows(d),
                    !.valid_records = ValidateRecords(d),
                    !.invalid_records = NRows(d) - ValidateRecords(d) ]

\* A validate that takes a dataset without rows for an error
ValidatorRejectsEmpty(d) ==
  IF d.none \/ NRows(d) = 0
  THEN [ ok |-> FALSE, report |-> NoReport, err |-> <<"ValidationError", "ValueError">> ]
  ELSE [ ok |-> TRUE, report |-> CountsReport(d), err |-> NoExc ]

\* A validate that enforces the default quality floor itself
ValidatorHardFails(d) ==
  IF d.none \/ NRows(d) = 0 \/ ValidateRecords(d) * 100 < 75 * NRows(d)
  THEN [ ok |-> FALSE, report |-> NoReport, err |-> <<"DataQualityError">> ]
  ELSE [ ok |-> TRUE, report |-> CountsReport(d), err |-> NoExc ]

\* DataQualityValidator.validate: [ok, report, err]
ValidatorValidate(d) ==
  IF d.none
  THEN [ ok |-> FALSE, report |-> NoReport, err |-> <<"ValidationError", "TypeError">> ]
  ELSE IF BusinessRulesRaise(d) # ""
  THEN [ ok |-> FALSE, report |-> NoReport,
         err |-> <<"ValidationError", BusinessRulesRaise(d)>> ]
  ELSE [ ok |-> TRUE, err |-> NoExc,
         report |->
           [ total_records |-> NRows(d),
             valid_records |-> ValidateRecords(d),
             invalid_records |-> NRows(d) - ValidateRecords(d),
             missing_values_by_column |-> AnalyzeMissingValues(d),
             duplicate_records |-> DetectDuplicates(d),
             data_types_issues |-> ValidateDataTypes(d),
             validation_errors |-> ValidateStructure(d) \o ValidateBusinessRules(d),
             none |-> FALSE ] ]

\* A score that takes a report without records for a perfect one
ScoreOfEmptyIsFull(report) ==
  IF report.total_records = 0 THEN [ num |-> 100, den |-> 1 ]
  ELSE [ num |-> report.valid_records * 100, den |-> report.total_records ]

\* DataQualityReport.data_quality_score, as the fraction num / den
DataQualityScore(report) ==
  IF report.total_records = 0 THEN [ num |-> 0, den |-> 1 ]
  ELSE [ num |-> report.valid_records * 100, den |-> report.total_records ]

\* A dropna that drops nothing
DropMissingNothing(d, name) == d

\* data[mask]: the rows where the boolean mask holds, labels kept
KeepRows(d, mask) == Concrete(TakeRows(d, TruePositions(AsSeq(mask), 1)))

\* dropna(subset=[name]) when the column is there
DropMissing(d, name) ==
  IF HasCol(d, name) THEN KeepRows(d, [ i \in 1..NRows(d) |-> ~ IsNa(d.rows[i][ColPos(d, name)]) ]) ELSE d

\* (x >= lo) & (x <= hi) of one cell; a missing cell compares False
InRange(v, lo, hi) == v.k = "num" /\ v.n >= lo * Scale /\ v.n <= hi * Scale

\* data[(data[name] >= lo) & (data[name] <= hi)] when the column is there
KeepInRange(d, name, lo, hi) ==
  IF HasCol(d, name)
  THEN KeepRows(d, [ i \in 1..NRows(d) |-> InRange(d.rows[i][ColPos(d, name)], lo, hi) ])
  ELSE d

\* The column is there and holds a text cell, which >= cannot compare with a number
HasText(d, name) ==
  HasCol(d, name) /\ \E i \in 1..NRows(d) : d.rows[i][ColPos(d, name)].k = "str"

\* DataQualityValidator.clean_data
ValidatorCleanData(d) ==
  IF d.none THEN Raise(<<"ValidationError", "AttributeError">>, "data_cleaning")
  ELSE LET present == DropMissing(DropMissing(d, RequiredColumns[1]), RequiredColumns[2])
           years == KeepInRange(present, AnoTitulacion, YearMin, YearMax)
           quantities == KeepInRange(years, CantidadTitulados, QuantityMin, QuantityMax)
       IN  IF HasText(present, AnoTitulacion) \/ HasText(years, CantidadTitulados)
           THEN Raise(<<"ValidationError", "TypeError">>, "data_cleaning")
           ELSE Ok(DropDuplicates(quantities))

\* DataQualityReport.data_quality_score < threshold, the score being
\* 0.0 for no records and 100 * valid / total otherwise
ScoreBelow(report, threshold) ==
  IF report.total_records = 0 THEN 0 < threshold
  ELSE report.valid_records * 100 < threshold * report.total_records

(***************************************************************************)
(* ExcelExtractor (src/data_pipeline/extractors/excel_extractor.py).        *)
(* A source is what the file system holds at the configured path: whether   *)
(* validate_source() accepts it, what pd.read_excel raises ("" for          *)
(* nothing), and the sheet it reads.                                        *)
(***************************************************************************)
Source(valid, fault, data) == [valid |-> valid, fault |-> fault, data |-> data]

\* ExcelExtractor.extract: the handlers of lines 88-105 name three library
\* exceptions, and `except Exception` takes everything else, the
\* ExtractionError raised inside the try block included
ExtractorExtract(src) ==
  IF ~ src.valid
  THEN Raise(Wrap("ExtractionError", <<"ExtractionError">>), "extract")
  ELSE IF src.fault # ""
  THEN Raise(Wrap("ExtractionError", <<src.fault>>), "extract")
  ELSE IF IsEmpty(src.data)
  THEN Raise(Wrap("ExtractionError", <<"ExtractionError">>), "extract")
  ELSE Ok(src.data)

(***************************************************************************)
(* CSVLoader (src/data_pipeline/loaders/csv_loader.py).                     *)
(* io is what the file system does with the write: "ok", "OSError" (open or *)
(* to_csv raises), "missing" (no file afterwards), "zero" (an empty file).  *)
(* A file is the sequence of its lines, each <<kind, content>>.             *)
(***************************************************************************)
NoFile ==
  [exists |-> FALSE, path |-> <<>>, metadata |-> <<>>, data |-> NoneData, lines |-> <<>>]

File(path, metadata, d, lines) ==
  [exists |-> TRUE, path |-> path, metadata |-> metadata, data |-> d, lines |-> AsSeq(lines)]

\* A header block that is not closed
MetadataHeaderUnclosed(metadata) ==
  << << "# Metadata", <<>> >> >>
    \o [ k \in 1..Len(metadata) |-> << "# key: value", metadata[k] >> ]

\* The lines load_with_metadata writes before the data (lines 186-190)
MetadataHeader(metadata) ==
  << << "# Metadata", <<>> >> >>
    \o [ k \in 1..Len(metadata) |-> << "# key: value", metadata[k] >> ]
    \o << << "# End Metadata", <<>> >> >>

\* One field as to_csv writes it: a missing value is the empty field
CsvField(v, dtype) == IF IsNa(v) THEN <<>> ELSE AsStr(v, dtype)

\* The lines of to_csv(index=False): the column names, then the fields of the rows
CsvLines(d) ==
  << << "header", d.cols >> >>
    \o [ i \in 1..NRows(d) |->
           << "row", AsSeq([ j \in 1..NCols(d) |-> CsvField(d.rows[i][j], d.dtypes[j]) ]) >> ]

(***************************************************************************)
(* pd.read_csv(path) with its defaults, as run_validation_only calls it     *)
(* (src/etl_pipeline.py, line 155): the first line names the columns, no    *)
(* line is taken for a comment, and the type of a column is inferred from   *)
(* its fields.                                                              *)
(***************************************************************************)
\* The fields of one line; a line of the metadata block has no separator in it
FieldsOf(line) ==
  CASE line[1] \in { "header", "row" } -> line[2]
    [] line[1] = "# key: value" -> << << "# ", line[2], ": value" >> >>
    [] OTHER -> << << line[1] >> >>

\* The fields read_csv takes for missing (its default na_values that the
\* texts of the model can spell)
NaFields ==
  { <<>>, <<"n", "a", "n">>, <<"N", "a", "N">>, <<"N", "A">>, <<"n", "u", "l", "l">>,
    <<"N", "U", "L", "L">>, <<"N", "o", "n", "e">> }

\* The position of the decimal point of a field, 0 when it has none
PointOf(t) == IF "." \in Range(t) THEN PosIn(".", t) ELSE 0

\* A field that parses as a number: digits, with an optional sign and fraction
IsNumberField(t) ==
  LET u == IF t # <<>> /\ Head(t) = "-" THEN Tail(t) ELSE t
      p == PointOf(u)
  IN  IF p = 0 THEN IsDigits(u)
      ELSE IsDigits(SubSeq(u, 1, p - 1)) /\ IsDigits(SubSeq(u, p + 1, Len(u)))

\* Ten to the k
RECURSIVE TenTo(_)
TenTo(k) == IF k = 0 THEN 1 ELSE 10 * TenTo(k - 1)

\* The number a field parses to, in units of 1/Scale
ParseNumber(t) ==
  LET neg == t # <<>> /\ Head(t) = "-"
      u == IF neg THEN Tail(t) ELSE t
      p == PointOf(u)
      whole == IF p = 0 THEN u ELSE SubSeq(u, 1, p - 1)
      frac == IF p = 0 THEN <<>> ELSE SubSeq(u, p + 1, Len(u))
      n == ParseDigits(whole) * Scale + (ParseDigits(frac) * Scale) \div TenTo(Len(frac))
  IN  IF neg THEN 0 - n ELSE n

\* Column j of the lines after the first, each line padded with empty fields
FieldColumn(lines, j) ==
  [ i \in 1..(Len(lines) - 1) |->
      IF j <= Len(FieldsOf(lines[i + 1])) THEN FieldsOf(lines[i + 1])[j] ELSE <<>> ]

\* The cells and dtype inferred for a column of fields: numbers when every
\* field that is not missing parses as one, text as written otherwise
InferColumn(fields) ==
  LET present == { i \in 1..Len(fields) : fields[i] \notin NaFields }
  IN  IF fields = <<>> THEN << <<>>, "object" >>
      ELSE IF \A i \in present : IsNumberField(fields[i])
      THEN << [ i \in 1..Len(fields) |->
                  IF i \in present THEN Num(ParseNumber(fields[i])) ELSE NaN ],
              IF present = 1..Len(fields) /\ present # {}
                   /\ \A i \in present : PointOf(fields[i]) = 0
              THEN "int64" ELSE "float64" >>
      ELSE << [ i \in 1..Len(fields) |->
                  IF i \in present THEN Str(fields[i]) ELSE NaN ], "object" >>

\* pd.read_csv of a file: no file, no columns to parse, and a line with more
\* fields than the line before it (from the third line on) raise
ReadCsv(file) ==
  IF ~ file.exists THEN Raise(<<"FileNotFoundError">>, "")
  ELSE IF file.lines = <<>> \/ FieldsOf(file.lines[1]) = <<>>
  THEN Raise(<<"EmptyDataError">>, "")
  ELSE IF \E k \in 3..Len(file.lines) :
            Len(FieldsOf(file.lines[k])) > Len(FieldsOf(file.lines[k - 1]))
  THEN Raise(<<"ParserError">>, "")
  ELSE LET names == FieldsOf(file.lines[1])
           n == Len(file.lines) - 1
           inferred == AsSeq([ j \in 1..Len(names) |-> InferColumn(FieldColumn(file.lines, j)) ])
       IN  Ok(Frame(names, [ j \in 1..Len(names) |-> inferred[j][2] ], RangeIndex(n),
                    [ i \in 1..n |-> [ j \in 1..Len(names) |-> inferred[j][1][i] ] ]))

\* Path(destination).suffix: from the last dot of the name, "" without one
RECURSIVE Suffix(_)
Suffix(path) ==
  IF path = <<>> THEN <<>>
  ELSE IF Contains(Tail(path), <<".">>) THEN Suffix(Tail(path))
  ELSE IF Head(path) = "." THEN path
  ELSE Suffix(Tail(path))

CsvSuffix == <<".", "c", "s", "v">>

\* validate_destination (the directory is writable)
ValidateDestination(destination) ==
  /\ Strip(destination, SpaceChars) # <<>>
  /\ Suffix(destination) # <<>>
  /\ Lower(Suffix(destination)) = CsvSuffix

LoadResult(ok, err, file) == [ok |-> ok, err |-> err, file |-> file]

\* CSVLoader.load
LoaderLoad(d, destination, io) ==
  IF ~ ValidateDestination(destination) THEN LoadResult(FALSE, <<"LoadingError">>, NoFile)
  ELSE IF io = "OSError" THEN LoadResult(FALSE, <<"LoadingError", "OSError">>, NoFile)
  ELSE IF io = "missing" THEN LoadResult(FALSE, <<"LoadingError">>, NoFile)
  ELSE IF io = "zero" THEN LoadResult(FALSE, <<"LoadingError">>, File(destination, <<>>, d, <<>>))
  ELSE LoadResult(TRUE, NoExc, File(destination, <<>>, d, CsvLines(d)))

\* CSVLoader.load_with_metadata: with metadata the file is opened and written
\* at once, and what has become of it is not looked at; without, load() does
\* the work and whatever it raises is wrapped
LoaderLoadWithMetadata(d, destination, metadata, io) ==
  IF metadata # <<>>
  THEN IF io = "OSError" \/ destination = <<>>
       THEN LoadResult(FALSE, <<"LoadingError", "OSError">>, NoFile)
       ELSE IF io = "missing" THEN LoadResult(TRUE, NoExc, NoFile)
       ELSE IF io = "zero" THEN LoadResult(TRUE, NoExc, File(destination, metadata, d, <<>>))
       ELSE LoadResult(TRUE, NoExc,
              File(destination, metadata, d, MetadataHeader(metadata) \o CsvLines(d)))
  ELSE LET r == LoaderLoad(d, destination, io)
       IN  IF r.ok THEN r ELSE LoadResult(FALSE, Wrap("LoadingError", r.err), r.file)

(***************************************************************************)
(* The datasets the operations are run on: every sheet of up to MaxRows     *)
(* rows over a few column layouts, and the scenario sheets of the tests and *)
(* of the end-to-end scenarios.                                             *)
(***************************************************************************)
TxtLosRiosAccent == <<"L", "o", "s", " ", "R", "í", "o", "s">>
TxtLosRios == <<"L", "o", "s", " ", "R", "i", "o", "s">>
TxtRegionDeLosRios == <<"R", "e", "g", "i", "ó", "n", " ", "d", "e", " ", "L", "o", "s", " ", "R", "í", "o", "s">>
TxtMetropolitana == <<"M", "e", "t", "r", "o", "p", "o", "l", "i", "t", "a", "n", "a">>
TxtMaule == <<"M", "a", "u", "l", "e">>
TxtPadded == <<" ", " ", "l", "o", "s", " ", " ", "r", "í", "o", "s", " ">>

Layout(cols, dtypes, domains) == [cols |-> cols, dtypes |-> dtypes, domains |-> domains]

Layouts ==
  { Layout(<< RegionKey >>, << "object" >>,
           << { Str(TxtLosRiosAccent), Str(TxtLosRios), Str(TxtMetropolitana), NaN } >>),
    Layout(<< RegionKey, AnoTitulacion >>, << "object", "float64" >>,
           << { Str(TxtLosRiosAccent), Str(TxtMetropolitana) }, { IntVal(2023), NaN } >>),
    Layout(<< <<"R", "e", "g", "i", "o", "n", " ", "N", "o", "m", "b", "r", "e">>, CantidadTitulados >>, << "object", "int64" >>,
           << { Str(TxtPadded), Str(TxtMetropolitana) }, { IntVal(5) } >>),
    Layout(<< <<"R", "e", "g", "i", "o", "n">>, RegionKey >>, << "object", "object" >>,
           << { Str(TxtLosRiosAccent) }, { Str(TxtLosRiosAccent) } >>),
    Layout(<< <<"c", "o", "l", "1">>, <<"c", "o", "l", "2">> >>, << "object", "int64" >>,
           << { Str(<<"a">>) }, { IntVal(1) } >>),
    Layout(<< <<"c", "o", "d", "i", "g", "o", "_", "i", "n", "s", "t", "i", "t", "u", "c", "i", "o", "n">>, RegionKey >>, << "object", "object" >>,
           << { Str(<<"0", "0", "1">>), Str(<<"0", "0", "2">>) }, { Str(TxtLosRiosAccent) } >>),
    Layout(<< RegionKey >>, << "int64" >>, << { IntVal(14) } >>) }

RowsOf(layout) ==
  { r \in [ 1..Len(layout.cols) -> UNION Range(layout.domains) ] :
      \A j \in 1..Len(layout.cols) : r[j] \in layout.domains[j] }

FramesOf(layout) ==
  UNION { { Frame(layout.cols, layout.dtypes, RangeIndex(n), rows) :
              rows \in [ 1..n -> RowsOf(layout) ] } : n \in 0..MaxRows }

RegionFrame(values) ==
  Frame(<< RegionKey >>, << "object" >>, RangeIndex(Len(values)),
        [ i \in 1..Len(values) |-> << Str(values[i]) >> ])

\* End-to-end scenario A: five rows, three of them of the target region
ScenarioA ==
  RegionFrame(<< TxtLosRiosAccent, TxtMetropolitana, TxtLosRios, TxtMaule, TxtRegionDeLosRios >>)

\* A sheet whose first two rows are duplicates of each other
ScenarioDuplicates ==
  RegionFrame(<< TxtMetropolitana, TxtMetropolitana, TxtLosRiosAccent >>)

\* A DataFrame with row labels and no columns
NoColumnsFrame == Frame(<<>>, <<>>, RangeIndex(2), << <<>>, <<>> >>)

RawFrames == (UNION { FramesOf(layout) : layout \in Layouts }) \cup { ScenarioA, ScenarioDuplicates }

\* The row labels a frame is left with once the row before position k + 1
\* has been dropped from it
Relabel(d, k) == [ d EXCEPT !.index = [ i \in 1..NRows(d) |-> IF i <= k THEN i - 1 ELSE i ] ]

CleanerInputs == RawFrames \cup { NoneData, EmptyFrame, NoColumnsFrame }

FilterInputs ==
  (UNION { { Relabel(d, k) : k \in 0..NRows(d) } : d \in RawFrames }) \cup { NoneData, EmptyFrame }

Sources ==
  { Source(TRUE, "", d) : d \in RawFrames \cup { EmptyFrame } }
    \cup { Source(FALSE, "", EmptyFrame), Source(TRUE, "PermissionError", EmptyFrame),
           Source(TRUE, "BadZipFile", EmptyFrame) }

\* The column names _standardize_column_names is run on: every text of up to
\* MaxNameLen characters over a letter of each case, an accented capital, a
\* digit, a blank, an underscore and a special character
NameChars == { "A", "n", "Í", "1", " ", "_", "-" }

Names == UNION { [ 1..n -> NameChars ] : n \in 0..MaxNameLen }

RegionNombre == <<"R", "e", "g", "i", "o", "n", " ", "N", "o", "m", "b", "r", "e">>

NameFrames ==
  { Frame(<< name, RegionNombre >>, << "object", "object" >>, RangeIndex(1),
          << << Str(<<"a">>), Str(<<"a">>) >> >>) : name \in Names }

\* The datasets _handle_outliers is run on: a float column 'edad' over a few
\* values, and an integer column 'ano' whose last value is far from the rest
Edad == <<"e", "d", "a", "d">>
Ano == <<"a", "n", "o">>

OutlierRows == MaxRows + 2

OutlierFrames ==
  UNION { { Frame(<< Edad, Ano >>, << "float64", "int64" >>, RangeIndex(n),
                  [ i \in 1..n |-> << vals[i], IntVal(IF i = n THEN 100 ELSE 1) >> ]) :
              vals \in [ 1..n -> { IntVal(1), IntVal(2), IntVal(100), NaN } ] } :
          n \in 1..OutlierRows }

\* The datasets _handle_missing_values is run on: ten or twenty rows, the
\* first m of them missing in a column that is a count, a measure or a text,
\* beside a column without a missing value
CantidadX == <<"c", "a", "n", "t", "i", "d", "a", "d", "_", "x">>

ProbeColumns == { << CantidadX, "float64" >>, << Edad, "float64" >>, << RegionKey, "object" >> }

ProbeValue(dtype, i) ==
  IF dtype = "object" THEN Str(IF i % 3 = 0 THEN <<"b">> ELSE <<"a">>) ELSE IntVal(i)

MissingFrames ==
  { Frame(<< c[1], <<"c", "o", "l", "2">> >>, << c[2], "int64" >>, RangeIndex(nm[1]),
          [ i \in 1..nm[1] |-> << IF i <= nm[2] THEN NaN ELSE ProbeValue(c[2], i), IntVal(1) >> ]) :
      c \in ProbeColumns,
      nm \in { x \in { 10, 20 } \X (0..20) : x[2] <= x[1] } }
    \cup { d \in RawFrames : NRows(d) > 0 }

\* End-to-end scenario C: the graduation years 1985, 2023 and 2050
ScenarioC ==
  Frame(<< AnoTitulacion >>, << "int64" >>, RangeIndex(3),
        << << IntVal(1985) >>, << IntVal(2023) >>, << IntVal(2050) >> >>)

\* A dataset of one row more than the validator samples
LargeFrame ==
  Frame(<< RegionKey >>, << "object" >>, RangeIndex(SampleSize + 1),
        [ i \in 1..(SampleSize + 1) |-> << Str(TxtLosRiosAccent) >> ])

\* Regions and graduation years, some missing, some years out of range
YearLayout ==
  Layout(<< RegionKey, AnoTitulacion >>, << "object", "float64" >>,
         << { Str(TxtLosRiosAccent), NaN },
            { IntVal(1985), IntVal(2023), IntVal(2050), NaN } >>)

\* The datasets the validator is run on
ValidatorInputs ==
  RawFrames \cup FramesOf(YearLayout) \cup { ScenarioC, LargeFrame, EmptyFrame, NoneData }

(***************************************************************************)
(* ETLPipeline (src/etl_pipeline.py) and its components as a state machine. *)
(***************************************************************************)
\* get_settings().target_region, by default 'Los Ríos'
Targets == { TxtLosRiosAccent, TxtLosRios, TxtMetropolitana }

\* ETLPipeline(quality_threshold = 75.0)
QualityThreshold == 75

CsvPath == <<"o", "u", "t", ".", "c", "s", "v">>

Destinations == { <<"o", "u", "t", ".", "c", "s", "v">>, <<"o", "u", "t", ".", "t", "x", "t">> }

\* The keys of the metadata _load_data hands to the loader
PipelineMetadata ==
  << "pipeline_execution_time", "target_region", "records_count", "pipeline_version", "data_source" >>

StageOrder == << "EXTRACT", "CLEAN", "FILTER", "VALIDATE", "LOAD" >>

\* A run that goes on to the next stage whatever the last one did
AfterStageNoAbort(stage, ok) ==
  CASE stage = "EXTRACT" -> "CLEAN"
    [] stage = "CLEAN" -> "FILTER"
    [] stage = "FILTER" -> "VALIDATE"
    [] stage = "VALIDATE" -> "LOAD"
    [] stage = "LOAD" -> "FINISH"

\* Where run_full_pipeline goes after a stage: the next statement of the try
\* block when the stage returned, the except clause when it raised
AfterStage(stage, ok) ==
  IF ~ ok THEN "EXCEPT"
  ELSE CASE stage = "EXTRACT" -> "CLEAN"
         [] stage = "CLEAN" -> "FILTER"
         [] stage = "FILTER" -> "VALIDATE"
         [] stage = "VALIDATE" -> "LOAD"
         [] stage = "LOAD" -> "FINISH"

\* An except clause that re-raises whatever it caught
EscapingUnwrapped(e) == e

\* What the except clause of run_full_pipeline lets out (lines 114-117)
Escaping(e) == IF IsDomain(e) THEN e ELSE Wrap("ETLError", e)

(***************************************************************************)
(* ETLLogger and OperationLogger (src/data_pipeline/utils/logger.py).       *)
(***************************************************************************)
\* The three sinks _configure_logging adds (lines 53-93)
Sinks == { "stdout", "log_file", "error_file" }

\* ETLLogger.__init__ of the k-th logger of the process: logger.remove()
\* empties the registry of the one loguru logger, then the sinks are added
LoggerInit(k) == { << k, sink >> : sink \in Sinks }

\* An __exit__ that reports success whatever happened
OperationEndAlways(operation, success) == << "end", operation, TRUE >>

\* OperationLogger.__enter__ logs the start of the operation
OperationStart(operation) == << "start", operation >>

\* OperationLogger.__exit__ logs the end, with success = exc_type is None
OperationEnd(operation, success) == << "end", operation, success >>

NoResult ==
  [ none |-> TRUE, success |-> FALSE, records_processed |-> 0,
    output_file_path |-> <<>>, quality_report |-> NoReport ]

ProcessingResult(success, records, path, quality) ==
  [ none |-> FALSE, success |-> success, records_processed |-> records,
    output_file_path |-> path, quality_report |-> quality ]

(***************************************************************************)
(* The objects a stage works on.  An object is named by how it was made     *)
(* from the caller's dataset; a statement that writes in place changes the  *)
(* object it is applied to, and the caller sees what happens to its own.    *)
(***************************************************************************)
\* The caller's dataset
Input == << "input" >>

\* A copy() that hands back the object it was called on
DataCopyAlias(obj) == obj

\* data.copy(): a new object
DataCopy(obj) == << "copy" >> \o obj

\* data[mask], dropna(), drop_duplicates(): a new object
Selection(obj) == << "selection" >> \o obj

Objects(written, returned) == [ written |-> written, returned |-> returned ]

\* DataCleaner.transform copies its argument (line 58); each step copies what
\* it is given (lines 133, 171, 221, 272, 347), writes to that copy in place
\* and returns it
CleanerObjects ==
  LET work == DataCopy(Input)
      step == DataCopy(work)
  IN  Objects({ step }, step)

\* RegionalFilter.filter copies its argument (line 142) and rebinds the name
\* to a selection for the region key and for every other key that is a column
FilterObjects(d, criteria) ==
  LET work == DataCopy(Input)
      selects == \E k \in 1..Len(criteria) :
                   criteria[k][1] = RegionKey \/ HasCol(d, criteria[k][1])
  IN  Objects({}, IF selects THEN Selection(work) ELSE work)

\* DataQualityValidator.clean_data copies its argument (line 142) and rebinds
\* the name to what dropna, the range selections and drop_duplicates return
CleanDataObjects ==
  LET work == DataCopy(Input)
  IN  Objects({}, Selection(work))

\* validate and get_regional_summary read the dataset and return no dataset
ReadOnlyObjects == Objects({}, <<>>)

\* The caller's dataset after a call with outcome r
InputAfter(d, r, objects) ==
  IF Input \in objects.written /\ r.ok THEN r.data ELSE d

\* The dataset returned is the caller's own object
Shares(r, objects) == r.ok /\ objects.returned = Input

(***************************************************************************)
(* The partial entry points of ETLPipeline (src/etl_pipeline.py).           *)
(***************************************************************************)
\* _extract_data (lines 182-217): validate_source(), then extract(); what is
\* raised is logged and raised again as it is
PipelineExtract(src) ==
  IF ~ src.valid THEN Raise(<<"ExtractionError">>, "extract") ELSE ExtractorExtract(src)

\* What an entry point did: the stages it entered, the data it worked on, the
\* exception raised inside its `with` block, the report it made
Partial(steps, r, quality) ==
  [ ok |-> r.ok, data |-> r.data, err |-> r.err, steps |-> steps, report |-> quality ]

\* run_extraction_only (lines 119-138)
RunExtractionOnly(src) == Partial(<< "EXTRACT" >>, PipelineExtract(src), NoReport)

\* run_validation_only (lines 140-165): a data_source that ends in .csv is
\* read with pd.read_csv; any other, like none at all, means the default
\* spreadsheet is extracted
RunValidationOnly(data_source, file, src) ==
  LET first == IF data_source = "csv" THEN "READ_CSV" ELSE "EXTRACT"
      got == IF data_source = "csv" THEN ReadCsv(file) ELSE PipelineExtract(src)
      v == ValidatorValidate(got.data)
  IN  IF ~ got.ok THEN Partial(<< first >>, got, NoReport)
      ELSE Partial(<< first, "VALIDATE" >>,
                   [ ok |-> v.ok, data |-> got.data, err |-> v.err, step |-> "" ], v.report)

NoSummary == [ none |-> TRUE, error |-> FALSE, total_records |-> 0, target_region_records |-> 0 ]

ErrorSummary == [ NoSummary EXCEPT !.none = FALSE, !.error = TRUE ]

\* RegionalFilter.get_regional_summary (regional_filter.py, lines 270-302)
FilterRegionalSummary(d, target, table) ==
  IF d.none \/ FindRegionColumn(d) = 0 THEN ErrorSummary
  ELSE LET r == FilterByRegion(d, target, table)
       IN  IF ~ r.ok THEN ErrorSummary
           ELSE [ none |-> FALSE, error |-> FALSE, total_records |-> NRows(d),
                  target_region_records |-> NRows(r.data) ]

\* ETLPipeline.get_regional_summary (lines 167-180): an exception that leaves
\* the `with` block is caught and reported under the key "error"
PipelineRegionalSummary(src, target, table) ==
  LET r == PipelineExtract(src)
  IN  IF ~ r.ok THEN [ Partial(<< "EXTRACT" >>, r, NoReport) EXCEPT !.report = ErrorSummary ]
      ELSE [ Partial(<< "EXTRACT", "SUMMARY" >>, r, NoReport)
               EXCEPT !.report = FilterRegionalSummary(r.data, target, table) ]

NoCall ==
  [ op |-> "", in |-> NoneData, criteria |-> <<>>, res |-> Ok(NoneData),
    ret |-> FALSE, steps |-> <<>>, src |-> Source(FALSE, "", NoneData),
    destination |-> <<>>, metadata |-> <<>>, report |-> NoReport, io |-> "",
    data_source |-> "", escaped |-> NoExc, summary |-> NoSummary,
    in_after |-> NoneData, shares |-> FALSE ]

\* The cleaning steps a call of DataCleaner.transform enters, in order
CleanerSteps(d) ==
  IF ~ CleanerValidateInput(d) THEN <<>>
  ELSE LET r1 == StandardizeColumnNames(d)
           r2 == Then(r1, CleanTextColumns)
           r3 == Then(r2, HandleMissingValues)
           r4 == Then(r3, StandardizeDataTypes)
           r5 == Then(r4, RemoveDuplicates)
       IN  << "column_names" >>
             \o (IF r1.ok THEN << "text_cleaning" >> ELSE <<>>)
             \o (IF r2.ok THEN << "missing_values" >> ELSE <<>>)
             \o (IF r3.ok THEN << "data_types" >> ELSE <<>>)
             \o (IF r4.ok THEN << "duplicates" >> ELSE <<>>)
             \o (IF r5.ok THEN << "outliers" >> ELSE <<>>)

\* How many times a call has appended the target to a list of the table
Grown(t) == Len(t[LosRios]) + Len(t[LosRiosAccent]) - 2 * Len(RegionSpellings)

VARIABLES
  target,     \* the configured target region
  table,      \* RegionalFilter._region_variations
  pc,         \* where run_full_pipeline is
  entered,    \* the stages the running (or last) run_full_pipeline has entered
  completed,  \* the stages that returned
  raw,        \* raw_data
  cleaned,    \* cleaned_data
  filtered,   \* filtered_data
  report,     \* quality_report
  warnings,   \* the warnings the operation logger has recorded
  exc,        \* the exception a stage raised
  raised,     \* the exception that left run_full_pipeline
  result,     \* the ProcessingResult built at the end of the run
  output,     \* the file the loader wrote
  call,       \* the last direct call of a component, with its outcome
  events,     \* what the operation logger of the running (or last) operation logged
  handlers,   \* the handlers of the process-wide loguru logger
  pipelines   \* how many ETLPipeline objects the process has constructed

vars ==
  << target, table, pc, entered, completed, raw, cleaned, filtered, report,
     warnings, exc, raised, result, output, call, events, handlers, pipelines >>

\* The state of the logging library
registry == << handlers, pipelines >>


Init ==
  /\ target \in Targets
  /\ table = InitialVariations
  /\ pc = "IDLE"
  /\ entered = <<>>
  /\ completed = <<>>
  /\ raw = NoneData
  /\ cleaned = NoneData
  /\ filtered = NoneData
  /\ report = NoReport
  /\ warnings = <<>>
  /\ exc = NoExc
  /\ raised = NoExc
  /\ result = NoResult
  /\ output = NoFile
  /\ call = NoCall
  /\ events = <<>>
  /\ handlers = LoggerInit(1)
  /\ pipelines = 1

\* No operation is in progress and the outcome of the last one is still held
AtRest == pc \in { "RETURNED", "RAISED" } \/ (pc = "IDLE" /\ call # NoCall)

\* The object is ready for the next call
Ready == pc = "IDLE" /\ call = NoCall

\* The locals of a run are gone once its outcome has been taken
FreshRun ==
  /\ entered' = <<>>
  /\ completed' = <<>>
  /\ raw' = NoneData
  /\ cleaned' = NoneData
  /\ filtered' = NoneData
  /\ report' = NoReport
  /\ warnings' = <<>>
  /\ exc' = NoExc
  /\ raised' = NoExc
  /\ result' = NoResult
  /\ events' = <<>>

\* run_full_pipeline is called (lines 51-58)
RunFullPipeline ==
  /\ Ready
  /\ Grown(table) < MaxCalls
  /\ pc' = "EXTRACT"
  /\ events' = << OperationStart("FULL_ETL_PIPELINE") >>
  /\ UNCHANGED << registry, target, table, entered, completed, raw, cleaned, filtered, report,
                  warnings, exc, raised, result, output, call >>

\* A stage of the run returns or raises
StageEnds(stage, ok, e) ==
  /\ entered' = Append(entered, stage)
  /\ completed' = IF ok THEN Append(completed, stage) ELSE completed
  /\ exc' = IF ok THEN NoExc ELSE e
  /\ pc' = AfterStage(stage, ok)

\* _extract_data
ExtractData ==
  /\ pc = "EXTRACT"
  /\ \E src \in Sources :
       LET r == PipelineExtract(src)
       IN  /\ StageEnds("EXTRACT", r.ok, r.err)
           /\ raw' = r.data
  /\ UNCHANGED << registry, events, target, table, cleaned, filtered, report, warnings, raised, result, output, call >>

\* _clean_data
CleanData ==
  /\ pc = "CLEAN"
  /\ LET r == CleanerTransform(raw)
     IN  /\ StageEnds("CLEAN", r.ok, r.err)
         /\ cleaned' = r.data
  /\ UNCHANGED << registry, events, target, table, raw, filtered, report, warnings, raised, result, output, call >>

\* _filter_regional_data
FilterRegionalData ==
  /\ pc = "FILTER"
  /\ LET r == FilterTransform(cleaned, target, table)
         none == r.ok /\ NRows(r.data) = 0
         bad == none /\ AvailableRegionsRaises(cleaned)
     IN  /\ StageEnds("FILTER", r.ok /\ ~ bad, IF bad THEN <<"TypeError">> ELSE r.err)
         /\ filtered' = IF bad THEN NoneData ELSE r.data
         /\ warnings' = IF none /\ ~ bad THEN Append(warnings, "no_records") ELSE warnings
  /\ table' = TableAfterTransform(cleaned, target, table)
  /\ UNCHANGED << registry, events, target, raw, cleaned, report, raised, result, output, call >>

\* _validate_data_quality
ValidateDataQuality ==
  /\ pc = "VALIDATE"
  /\ LET v == ValidatorValidate(filtered)
     IN  /\ StageEnds("VALIDATE", v.ok, v.err)
         /\ report' = v.report
         /\ warnings' = IF v.ok /\ ScoreBelow(v.report, QualityThreshold)
                        THEN Append(warnings, "below_threshold") ELSE warnings
  /\ UNCHANGED << registry, events, target, table, raw, cleaned, filtered, raised, result, output, call >>

\* _load_data: the loader writes the file, then the file's size is read for
\* the log; vanished says the file was gone between exists() and stat()
LoadData ==
  /\ pc = "LOAD"
  /\ \E destination \in Destinations, io \in { "ok", "OSError" }, vanished \in BOOLEAN :
       LET r == LoaderLoadWithMetadata(filtered, destination, PipelineMetadata, io)
           gone == r.ok /\ vanished
       IN  /\ StageEnds("LOAD", r.ok /\ ~ gone, IF gone THEN <<"FileNotFoundError">> ELSE r.err)
           /\ output' = IF gone THEN NoFile ELSE r.file
  /\ UNCHANGED << registry, events, target, table, raw, cleaned, filtered, report, warnings, raised, result, call >>

\* The end of the try block (lines 82-100)
ReturnResult ==
  /\ pc = "FINISH"
  /\ result' = ProcessingResult(TRUE, NRows(filtered), output.path, report)
  /\ pc' = "RETURNED"
  /\ events' = Append(events, OperationEnd("FULL_ETL_PIPELINE", TRUE))
  /\ UNCHANGED << registry, target, table, entered, completed, raw, cleaned, filtered, report,
                  warnings, exc, raised, output, call >>

\* The except clause (lines 102-117)
HandleException ==
  /\ pc = "EXCEPT"
  /\ result' = ProcessingResult(FALSE, 0, <<>>, NoReport)
  /\ raised' = Escaping(exc)
  /\ pc' = "RAISED"
  /\ events' = Append(events, OperationEnd("FULL_ETL_PIPELINE", FALSE))
  /\ UNCHANGED << registry, target, table, entered, completed, raw, cleaned, filtered, report,
                  warnings, exc, output, call >>

\* The caller takes what the last operation returned or raised; the
\* components, and with them the filter's table, live on
TakeOutcome ==
  /\ AtRest
  /\ pc' = "IDLE"
  /\ FreshRun
  /\ output' = NoFile
  /\ call' = NoCall
  /\ UNCHANGED << registry, target, table >>

\* A direct call of a component, made when the object is ready for one
Called(c) ==
  /\ call' = c
  /\ UNCHANGED << registry, events, target, pc, entered, completed, raw, cleaned, filtered, report,
                  warnings, exc, raised, result >>

\* A call of an entry point of the pipeline that runs inside one operation logger
Operated(c, operation) ==
  /\ call' = c
  /\ events' = << OperationStart(operation), OperationEnd(operation, c.res.ok) >>
  /\ UNCHANGED << registry, target, pc, entered, completed, raw, cleaned, filtered, report,
                  warnings, exc, raised, result, output >>

\* The outcome of an entry point as a call's result
ResultOf(r) == [ ok |-> r.ok, data |-> r.data, err |-> r.err, step |-> "" ]

CallRunExtractionOnly ==
  Ready /\ \E src \in Sources :
    LET r == RunExtractionOnly(src)
    IN  /\ Operated([ NoCall EXCEPT !.op = "pipeline.run_extraction_only", !.src = src,
                                    !.res = ResultOf(r), !.steps = r.steps,
                                    !.escaped = r.err ],
                    "EXTRACTION_ONLY")
        /\ UNCHANGED table

\* The data_source of run_validation_only: none, a .csv path, another path
DataSources == { "", "csv", "xlsx" }

\* The .csv file is one the loader wrote from d with the metadata, or is not there
CallRunValidationOnly ==
  Ready /\ \E data_source \in DataSources :
    \E src \in (IF data_source = "csv" THEN { Source(TRUE, "", ScenarioA) } ELSE Sources),
       d \in (IF data_source = "csv" THEN RawFrames ELSE { NoneData }),
       metadata \in (IF data_source = "csv" THEN { <<>>, << "source" >> } ELSE { <<>> }),
       io \in (IF data_source = "csv" THEN { "ok", "missing" } ELSE { "" }) :
      LET written == LoaderLoadWithMetadata(d, CsvPath, metadata, "ok").file
          file == IF io = "ok" THEN written ELSE NoFile
          r == RunValidationOnly(data_source, file, src)
      IN  /\ Operated([ NoCall EXCEPT !.op = "pipeline.run_validation_only",
                                      !.data_source = data_source, !.src = src,
                                      !.in = d, !.metadata = metadata, !.io = io,
                                      !.res = ResultOf(r), !.steps = r.steps,
                                      !.report = r.report, !.escaped = r.err ],
                      "VALIDATION_ONLY")
          /\ UNCHANGED table

CallGetRegionalSummary ==
  /\ Ready
  /\ Grown(table) < MaxCalls
  /\ \E src \in Sources :
       LET r == PipelineRegionalSummary(src, target, table)
       IN  /\ Operated([ NoCall EXCEPT !.op = "pipeline.get_regional_summary", !.src = src,
                                       !.res = ResultOf(r), !.steps = r.steps,
                                       !.summary = r.report, !.in = r.data,
                                       !.in_after = InputAfter(r.data, r, ReadOnlyObjects),
                                       !.shares = Shares(r, ReadOnlyObjects) ],
                       "REGIONAL_SUMMARY")
           /\ table' = IF r.ok THEN TableAfterFilter(r.data, target, table) ELSE table

\* ETLPipeline.__init__ (lines 29-49) of one more pipeline of the process:
\* its ETLLogger is constructed, the components are the new object's own
ConstructPipeline ==
  /\ Ready
  /\ pipelines < MaxPipelines
  /\ pipelines' = pipelines + 1
  /\ handlers' = LoggerInit(pipelines + 1)
  /\ UNCHANGED << target, table, pc, entered, completed, raw, cleaned, filtered, report,
                  warnings, exc, raised, result, output, call, events >>

CallCleanerTransform ==
  Ready /\ \E d \in CleanerInputs :
    /\ Called([ NoCall EXCEPT !.op = "cleaner.transform", !.in = d,
                              !.res = CleanerTransform(d), !.steps = CleanerSteps(d),
                              !.in_after = InputAfter(d, CleanerTransform(d), CleanerObjects),
                              !.shares = Shares(CleanerTransform(d), CleanerObjects) ])
    /\ UNCHANGED << table, output >>

CallCleanerValidateInput ==
  Ready /\ \E d \in CleanerInputs :
    /\ Called([ NoCall EXCEPT !.op = "cleaner.validate_input", !.in = d,
                              !.ret = CleanerValidateInput(d) ])
    /\ UNCHANGED << table, output >>

CallFilterTransform ==
  /\ Ready
  /\ Grown(table) < MaxCalls
  /\ \E d \in FilterInputs :
       /\ LET r == FilterTransform(d, target, table)
              objects == FilterObjects(d, << << RegionKey, Str(target) >> >>)
          IN  Called([ NoCall EXCEPT !.op = "filter.transform", !.in = d, !.res = r,
                                    !.in_after = InputAfter(d, r, objects),
                                    !.shares = Shares(r, objects) ])
       /\ table' = TableAfterTransform(d, target, table)
       /\ UNCHANGED output

\* The criteria the filter is called with: none, the target region, the
\* target region and a year
CriteriaOf(t) ==
  { <<>>, << << RegionKey, Str(t) >> >>, << << RegionKey, Str(t) >>, << AnoTitulacion, IntVal(2023) >> >> }

CallFilterFilter ==
  /\ Ready
  /\ Grown(table) < MaxCalls
  /\ \E d \in FilterInputs, criteria \in CriteriaOf(target) :
       /\ LET r == FilterFilter(d, criteria, table)
              objects == FilterObjects(d, criteria)
          IN  Called([ NoCall EXCEPT !.op = "filter.filter", !.in = d, !.criteria = criteria,
                                    !.res = r,
                                    !.in_after = InputAfter(d, r, objects),
                                    !.shares = Shares(r, objects) ])
       /\ table' = TableAfterFilterFilter(d, criteria, table)
       /\ UNCHANGED output

CallFilterValidateInput ==
  Ready /\ \E d \in FilterInputs :
    /\ Called([ NoCall EXCEPT !.op = "filter.validate_input", !.in = d,
                              !.ret = FilterValidateInput(d) ])
    /\ UNCHANGED << table, output >>

CallExtractorExtract ==
  Ready /\ \E src \in Sources :
    /\ Called([ NoCall EXCEPT !.op = "extractor.extract", !.src = src,
                              !.res = ExtractorExtract(src) ])
    /\ UNCHANGED << table, output >>

CallLoaderLoadWithMetadata ==
  Ready /\ \E d \in { ScenarioA, ScenarioDuplicates },
     destination \in Destinations \cup { <<>>, <<"o", "u", "t">> },
     metadata \in { <<>>, << "source" >>, << "source", "rows" >> },
     io \in { "ok", "OSError", "missing", "zero" } :
    LET r == LoaderLoadWithMetadata(d, destination, metadata, io)
    IN  /\ Called([ NoCall EXCEPT !.op = "loader.load_with_metadata", !.in = d,
                                  !.destination = destination, !.metadata = metadata,
                                  !.io = io,
                                  !.res = [ ok |-> r.ok, data |-> NoneData, err |-> r.err, step |-> "" ] ])
        /\ output' = r.file
        /\ UNCHANGED table

CallStandardizeColumnNames ==
  Ready /\ \E d \in NameFrames :
    /\ Called([ NoCall EXCEPT !.op = "cleaner.standardize_column_names", !.in = d,
                              !.res = StandardizeColumnNames(d) ])
    /\ UNCHANGED << table, output >>

CallHandleOutliers ==
  Ready /\ \E d \in OutlierFrames :
    /\ Called([ NoCall EXCEPT !.op = "cleaner.handle_outliers", !.in = d,
                              !.res = HandleOutliers(d) ])
    /\ UNCHANGED << table, output >>

CallHandleMissingValues ==
  Ready /\ \E d \in MissingFrames :
    /\ Called([ NoCall EXCEPT !.op = "cleaner.handle_missing_values", !.in = d,
                              !.res = HandleMissingValues(d) ])
    /\ UNCHANGED << table, output >>

CallStandardizeDataTypes ==
  Ready /\ \E d \in RawFrames :
    /\ Called([ NoCall EXCEPT !.op = "cleaner.standardize_data_types", !.in = d,
                              !.res = StandardizeDataTypes(d) ])
    /\ UNCHANGED << table, output >>

CallValidatorValidate ==
  Ready /\ \E d \in ValidatorInputs :
    LET v == ValidatorValidate(d)
        r == [ ok |-> v.ok, data |-> NoneData, err |-> v.err, step |-> "" ]
    IN  /\ Called([ NoCall EXCEPT !.op = "validator.validate", !.in = d, !.report = v.report,
                                  !.res = r,
                                  !.in_after = InputAfter(d, r, ReadOnlyObjects),
                                  !.shares = Shares(r, ReadOnlyObjects) ])
        /\ UNCHANGED << table, output >>

CallValidatorCleanData ==
  Ready /\ \E d \in ValidatorInputs :
    /\ Called([ NoCall EXCEPT !.op = "validator.clean_data", !.in = d,
                              !.res = ValidatorCleanData(d),
                              !.in_after = InputAfter(d, ValidatorCleanData(d), CleanDataObjects),
                              !.shares = Shares(ValidatorCleanData(d), CleanDataObjects) ])
    /\ UNCHANGED << table, output >>

Next ==
  \/ RunFullPipeline
  \/ ExtractData
  \/ CleanData
  \/ FilterRegionalData
  \/ ValidateDataQuality
  \/ LoadData
  \/ ReturnResult
  \/ HandleException
  \/ TakeOutcome
  \/ CallCleanerTransform
  \/ CallCleanerValidateInput
  \/ CallFilterTransform
  \/ CallFilterFilter
  \/ CallFilterValidateInput
  \/ CallExtractorExtract
  \/ CallLoaderLoadWithMetadata
  \/ CallStandardizeColumnNames
  \/ CallHandleOutliers
  \/ CallHandleMissingValues
  \/ CallValidatorValidate
  \/ CallValidatorCleanData
  \/ CallRunExtractionOnly
  \/ CallRunValidationOnly
  \/ CallGetRegionalSummary
  \/ ConstructPipeline
  \/ CallStandardizeDataTypes

Spec == Init /\ [][Next]_vars

(***************************************************************************)
(* Properties.                                                              *)
(***************************************************************************)
IsPrefix(s, t) == Len(s) <= Len(t) /\ s = SubSeq(t, 1, Len(s))

\* The exceptions a state holds
Chains == { exc, raised, call.res.err }

\* The spellings accepted for target t
Accepted(t) ==
  IF Strip(Lower(t), SpaceChars) \in DOMAIN InitialVariations
  THEN Range(RegionSpellings) \cup { t }
  ELSE { t }

\* The cell, lowercased and trimmed, contains an accepted spelling
MatchesTarget(v, t) ==
  /\ v.k = "str"
  /\ \E sp \in Accepted(t) : Contains(Strip(Lower(v.s), SpaceChars), Lower(sp))

\* The position in d of the row labelled l, 0 when there is none
PositionOf(d, l) ==
  IF \E i \in 1..NRows(d) : d.index[i] = l
  THEN CHOOSE i \in 1..NRows(d) : d.index[i] = l
  ELSE 0

\* out holds rows of in only, as they are and in their order, each of the
\* target region
MatchingRowsOf(in, out, t) ==
  /\ out.cols = in.cols
  /\ out.dtypes = in.dtypes
  /\ \A k \in 1..NRows(out) :
       /\ PositionOf(in, out.index[k]) # 0
       /\ out.rows[k] = in.rows[PositionOf(in, out.index[k])]
       /\ MatchesTarget(out.rows[k][FindRegionColumn(in)], t)
       /\ k > 1 => PositionOf(in, out.index[k - 1]) < PositionOf(in, out.index[k])

\* Every row of in of the target region is a row of out
EveryMatchIn(in, out, t) ==
  \A i \in 1..NRows(in) :
    MatchesTarget(in.rows[i][FindRegionColumn(in)], t) => PositionOf(out, in.index[i]) # 0

\* out has no more rows than in has distinct rows, and no column but the
\* standardized columns of in
NoMoreThan(in, out) ==
  /\ NRows(out) <= Cardinality(Range(in.rows))
  /\ NCols(out) <= NCols(in)
  /\ \A j \in 1..NCols(out) : \E k \in 1..NCols(in) : out.cols[j] = StandardName(in.cols[k])

\* C1: run_full_pipeline enters EXTRACT, CLEAN, FILTER, VALIDATE, LOAD in
\* this order and each at most once; every stage entered before the last
\* one entered has returned, so no stage follows one that raised, and LOAD is
\* entered only after the four stages before it returned in the same run.
C1_StagesInOrder ==
  /\ IsPrefix(entered, StageOrder)
  /\ IsPrefix(completed, entered)
  /\ Len(entered) <= Len(completed) + 1
  /\ (pc \in { "EXCEPT", "RAISED" } => Len(entered) = Len(completed) + 1)
  /\ ("LOAD" \in Range(entered) =>
        { "EXTRACT", "CLEAN", "FILTER", "VALIDATE" } \subseteq Range(completed))

\* FILTER raised: CLEAN had returned, VALIDATE and LOAD were not entered
C1_Witness ==
  /\ pc = "RAISED"
  /\ entered = << "EXTRACT", "CLEAN", "FILTER" >>
  /\ completed = << "EXTRACT", "CLEAN" >>

\* C2: what leaves run_full_pipeline is a domain error: the stage's own
\* error when that is a domain error, and otherwise an ETLError whose cause
\* is the exception the stage raised.
C2_EscapesAsDomainError ==
  pc = "RAISED" =>
    /\ IsDomain(raised)
    /\ IsDomain(exc) => raised = exc
    /\ ~ IsDomain(exc) => raised = << "ETLError" >> \o exc

\* An exception that is no domain error reached the except clause
C2_Witness == pc = "RAISED" /\ exc # NoExc /\ ~ IsDomain(exc)

\* C3: the cause attached to a domain error is never itself a domain error.
C3_NoDoubleWrapping ==
  \A e \in Chains : \A i \in 1..(Len(e) - 1) :
    e[i] \in DomainErrors => e[i + 1] \notin DomainErrors

\* The filter matched no row of a cleaned dataset that has rows
ZeroMatches ==
  /\ "FILTER" \in Range(completed)
  /\ NRows(cleaned) > 0
  /\ NRows(filtered) = 0

\* C4: when the filter matches no row of a non-empty cleaned dataset, FILTER
\* returns an empty dataset, VALIDATE returns, LOAD is entered (the run can
\* then only fail on the file system) and the result returned has
\* success = true and records_processed = 0.
C4_EmptySelectionGoesThrough ==
  ZeroMatches =>
    /\ ~ filtered.none
    /\ pc \in { "VALIDATE", "LOAD", "FINISH", "RETURNED", "EXCEPT", "RAISED" }
    /\ pc # "VALIDATE" => "VALIDATE" \in Range(completed)
    /\ pc \in { "EXCEPT", "RAISED" } =>
         /\ entered = StageOrder
         /\ exc \in { << "LoadingError", "OSError" >>, << "FileNotFoundError" >> }
    /\ pc = "RETURNED" =>
         /\ entered = StageOrder
         /\ result.success
         /\ result.records_processed = 0

C4_Witness == pc = "RETURNED" /\ ZeroMatches /\ result.success

\* VALIDATE returned a report whose score is below the threshold
BelowThreshold ==
  /\ "VALIDATE" \in Range(completed)
  /\ ScoreBelow(report, QualityThreshold)

\* C5: no DataQualityError is ever raised; a score below the threshold is
\* recorded as a warning, VALIDATE returns the report, LOAD is entered, and
\* the result returned has success = true and holds the report.
C5_LowScoreIsNoError ==
  /\ \A e \in Chains : "DataQualityError" \notin Range(e)
  /\ BelowThreshold =>
       /\ "below_threshold" \in Range(warnings)
       /\ ~ report.none
       /\ pc \in { "EXCEPT", "RAISED" } => entered = StageOrder
       /\ pc = "RETURNED" => result.success /\ result.quality_report = report

C5_Witness ==
  pc = "RETURNED" /\ BelowThreshold /\ report.total_records > 0 /\ result.quality_report = report

\* C6: what RegionalFilter.transform returns holds only rows of its input,
\* unchanged and in the input's order, none twice, and the region value of
\* each of them, lowercased and trimmed, contains the lowercased target or
\* one of its accepted spellings.
C6_FilterReturnsMatchingRowsOnly ==
  /\ (call.op = "filter.transform" /\ call.res.ok) =>
       MatchingRowsOf(call.in, call.res.data, target)
  /\ "FILTER" \in Range(completed) => MatchingRowsOf(cleaned, filtered, target)

C6_Witness ==
  /\ call.op = "filter.transform"
  /\ call.res.ok
  /\ 0 < NRows(call.res.data)
  /\ NRows(call.res.data) < NRows(call.in)

\* C7: RegionalFilter.transform and filter (by region alone) keep every row
\* whose region value, lowercased and trimmed, contains an accepted spelling;
\* scenario A yields three rows.
C7_FilterKeepsEveryMatchingRow ==
  /\ ( /\ call.op \in { "filter.transform", "filter.filter" }
       /\ call.criteria \in { <<>>, << << RegionKey, Str(target) >> >> }
       /\ call.res.ok ) =>
       /\ EveryMatchIn(call.in, call.res.data, target)
       /\ (call.in = ScenarioA /\ target = TxtLosRiosAccent) => NRows(call.res.data) = 3
  /\ "FILTER" \in Range(completed) => EveryMatchIn(cleaned, filtered, target)

\* The dataset has rows and columns, and no region column or a region column
\* that is missing in every row
NoRegionData(d) ==
  /\ ~ d.none
  /\ ~ IsEmpty(d)
  /\ \/ FindRegionColumn(d) = 0
     \/ \A i \in 1..NRows(d) : IsNa(d.rows[i][FindRegionColumn(d)])

\* C8: RegionalFilter.transform raises TransformationError and returns no
\* dataset when the input has no region column or a region column missing
\* in every row; validate_input is false for these inputs and for a null or
\* empty dataset, and true for every other.
C8_FilterRejectsNoRegion ==
  /\ (call.op = "filter.transform" /\ NoRegionData(call.in)) =>
       /\ ~ call.res.ok
       /\ call.res.err = << "TransformationError" >>
       /\ call.res.data = NoneData
  /\ call.op = "filter.validate_input" =>
       call.ret = ~ (call.in.none \/ IsEmpty(call.in) \/ NoRegionData(call.in))

\* transform turned away a dataset whose region column is missing in every row
C8_Witness ==
  /\ call.op = "filter.transform"
  /\ NoRegionData(call.in)
  /\ FindRegionColumn(call.in) # 0
  /\ ~ call.res.ok

\* The input is null, or has no rows, or has no columns
Rejected(d) == d.none \/ NRows(d) = 0 \/ NCols(d) = 0

\* C9: DataCleaner.transform raises TransformationError, having entered no
\* cleaning step, when its input is null or has no rows or no columns;
\* validate_input is false for exactly these inputs.
C9_CleanerRejectsEmpty ==
  /\ (call.op = "cleaner.transform" /\ Rejected(call.in)) =>
       /\ ~ call.res.ok
       /\ call.res.err = << "TransformationError" >>
       /\ call.res.data = NoneData
       /\ call.steps = <<>>
  /\ call.op = "cleaner.validate_input" => call.ret = ~ Rejected(call.in)

\* transform turned away a dataset that has columns and no rows
C9_Witness ==
  /\ call.op = "cleaner.transform"
  /\ ~ call.in.none
  /\ NCols(call.in) > 0
  /\ NRows(call.in) = 0
  /\ ~ call.res.ok

WellFormed(d) ==
  /\ ~ Rejected(d)
  /\ \A i, j \in 1..NCols(d) :
       i < j => StandardName(d.cols[i]) # StandardName(d.cols[j])

\* C11: DataCleaner.transform returns a dataset for every non-empty dataset
\* with distinct column names, a dataset with the column codigo_institucion
\* of digit strings included.
C11_CleanerReturnsForWellFormed ==
  (call.op = "cleaner.transform" /\ WellFormed(call.in)) => call.res.ok

\* The letters and digits of a text, in order
AlnumOf(s) == SelectSeq(s, LAMBDA c : c \in LetterChars \cup DigitChars)

\* Lowercase letters, digits and single underscores, none at either end
StandardForm(s) ==
  /\ \A i \in 1..Len(s) : s[i] \in (Range(Lowers) \cup DigitChars \cup { "_" })
  /\ s # <<>> => (s[1] # "_" /\ s[Len(s)] # "_")
  /\ \A i \in 1..(Len(s) - 1) : ~ (s[i] = "_" /\ s[i + 1] = "_")

\* C12: _standardize_column_names keeps the number and the order of the
\* columns (each new name holds the lowercased letters and digits of the old
\* one at its position), every new name is made of lowercase letters, digits
\* and single underscores with none at either end, and standardizing the
\* result again changes no name.
C12_StandardNamesAreStable ==
  call.op = "cleaner.standardize_column_names" =>
    /\ call.res.ok
    /\ NCols(call.res.data) = NCols(call.in)
    /\ call.res.data.rows = call.in.rows
    /\ \A j \in 1..NCols(call.in) :
         /\ StandardForm(call.res.data.cols[j])
         /\ AlnumOf(call.res.data.cols[j]) = Lower(AlnumOf(call.in.cols[j]))
    /\ StandardizeColumnNames(call.res.data).data.cols = call.res.data.cols

\* A name with a capital, a special character and an underscore at its end
\* was rewritten
C12_Witness ==
  /\ call.op = "cleaner.standardize_column_names"
  /\ call.in.cols[1] = << "A", "-", "_" >>
  /\ call.res.data.cols[1] = << "a" >>

\* The non-missing numbers of column j
NumbersOf(d, j) == { d.rows[i][j].n : i \in { k \in 1..NRows(d) : d.rows[k][j].k = "num" } }

\* C13: _handle_outliers keeps the rows and their order; in every numeric
\* column but 'codigo' and 'ano' each value ends within
\* [Q1 - 1.5 IQR, Q3 + 1.5 IQR] of the column's input values, a value that
\* was within stays as it was and a missing one stays missing; a column
\* named 'codigo' or 'ano' is left as it was.
C13_OutliersAreCapped ==
  (call.op = "cleaner.handle_outliers" /\ call.res.ok) =>
    /\ call.res.data.index = call.in.index
    /\ call.res.data.cols = call.in.cols
    /\ Len(call.res.data.rows) = NRows(call.in)
    /\ \A j \in 1..NCols(call.in) :
         IF call.in.cols[j] \in ExemptFromOutliers
         THEN Column(call.res.data, j) = Column(call.in, j)
         ELSE \A i \in 1..NRows(call.in) :
                LET old == call.in.rows[i][j]
                    new == call.res.data.rows[i][j]
                    bounds == OutlierBounds(call.in, j)
                IN  IF old.k = "num"
                    THEN /\ new.k = "num"
                         /\ bounds[1] <= new.n /\ new.n <= bounds[2]
                         /\ (bounds[1] <= old.n /\ old.n <= bounds[2]) => new = old
                    ELSE new = old

\* A value of 'edad' was brought down to the upper bound while 'ano', which
\* holds a value as far out, kept it
C13_Witness ==
  /\ call.op = "cleaner.handle_outliers"
  /\ call.res.ok
  /\ \E i \in 1..NRows(call.in) :
       /\ call.in.rows[i][1] = IntVal(100)
       /\ call.res.data.rows[i][1].n < 100 * Scale
       /\ call.res.data.rows[i][1].n = OutlierBounds(call.in, 1)[2]
  /\ call.res.data.rows[NRows(call.in)][2] = IntVal(100)
  /\ NumbersOf(call.in, 2) = { Scale, 100 * Scale }

\* Column j of in, as out must hold it: missing cells filled with 0 in a
\* count, with the median in another numeric column, with the most frequent
\* value in a text column
FilledColumn(in, j) ==
  LET fill == IF IsNumericColumn(in, j)
              THEN IF Contains(Lower(in.cols[j]), Cantidad) THEN Num(0)
                   ELSE Num(Median(Column(in, j)))
              ELSE Mode(Column(in, j))
  IN  [ i \in 1..NRows(in) |-> IF IsNa(in.rows[i][j]) THEN fill ELSE in.rows[i][j] ]

\* C14: _handle_missing_values drops a column exactly when more than 90% of
\* its values are missing (one that is 90% missing stays); in a column that
\* stays the missing values are filled with 0 when it is numeric and named
\* 'cantidad', with the median when it is numeric otherwise, with the most
\* frequent value when it is text, and no missing value is left.
C14_MissingValuesAreHandled ==
  (call.op = "cleaner.handle_missing_values" /\ call.res.ok) =>
    /\ call.res.data.index = call.in.index
    /\ \A j \in 1..NCols(call.res.data) : HasCol(call.in, call.res.data.cols[j])
    /\ \A j \in 1..NCols(call.in) :
         IF 10 * MissingCount(call.in, j) > 9 * NRows(call.in)
         THEN ~ HasCol(call.res.data, call.in.cols[j])
         ELSE /\ HasCol(call.res.data, call.in.cols[j])
              /\ LET k == ColPos(call.res.data, call.in.cols[j])
                 IN  /\ MissingCount(call.res.data, k) = 0
                     /\ Column(call.res.data, k) = FilledColumn(call.in, j)

\* A count with nine of its ten values missing stayed and was filled with 0
C14_Witness ==
  /\ call.op = "cleaner.handle_missing_values"
  /\ call.res.ok
  /\ call.in.cols[1] = CantidadX
  /\ NRows(call.in) = 10
  /\ MissingCount(call.in, 1) = 9
  /\ call.res.data.cols[1] = CantidadX
  /\ call.res.data.rows[1][1] = Num(0)
  /\ call.res.data.rows[10][1] = IntVal(10)

\* The counts of a report agree and its score is within [0, 100]
ReportIsConsistent(r) ==
  LET score == DataQualityScore(r)
  IN  /\ 0 <= r.valid_records
      /\ r.valid_records <= r.total_records
      /\ r.invalid_records = r.total_records - r.valid_records
      /\ score.den > 0
      /\ 0 <= score.num
      /\ score.num <= 100 * score.den
      /\ r.total_records = 0 => score.num = 0
      /\ r.total_records > 0 => score.num * r.total_records = 100 * r.valid_records * score.den

\* C15: in every report validate returns, 0 <= valid_records <=
\* total_records, invalid_records = total_records - valid_records, and the
\* quality score is 100 * valid_records / total_records, within [0, 100],
\* and 0 when there are no records.
C15_ReportCountsAgree ==
  /\ (call.op = "validator.validate" /\ call.res.ok) =>
       (call.report.total_records = NRows(call.in) /\ ReportIsConsistent(call.report))
  /\ "VALIDATE" \in Range(completed) =>
       (report.total_records = NRows(filtered) /\ ReportIsConsistent(report))

\* validate returned the report of a dataset larger than the sample
C15_Witness ==
  /\ call.op = "validator.validate"
  /\ call.res.ok
  /\ call.report.total_records > SampleSize
  /\ call.report.valid_records = call.report.total_records
  /\ DataQualityScore(call.report).num = 100 * DataQualityScore(call.report).den

\* The map m holds the missing counts of the columns of in that have a
\* missing value, and nothing else
MissingMapIsExact(in, m) ==
  /\ \A k \in 1..Len(m) :
       /\ m[k][2] > 0
       /\ \E j \in 1..NCols(in) : in.cols[j] = m[k][1] /\ MissingCount(in, j) = m[k][2]
  /\ \A j \in 1..NCols(in) :
       MissingCount(in, j) > 0 => \E k \in 1..Len(m) : m[k][1] = in.cols[j]
  /\ \A k1, k2 \in 1..Len(m) : k1 # k2 => m[k1][1] # m[k2][1]

\* C16: the missing-value map of a report has an entry for a column exactly
\* when the column has a missing value, the entry is the number of missing
\* values of the column, and no entry is 0.
C16_MissingMapIsExact ==
  /\ (call.op = "validator.validate" /\ call.res.ok) =>
       MissingMapIsExact(call.in, call.report.missing_values_by_column)
  /\ "VALIDATE" \in Range(completed) =>
       MissingMapIsExact(filtered, report.missing_values_by_column)

\* Of two columns one has missing values: the map has its entry alone
C16_Witness ==
  /\ call.op = "validator.validate"
  /\ call.res.ok
  /\ NCols(call.in) = 2
  /\ NRows(call.in) = 2
  /\ MissingCount(call.in, 1) = 0
  /\ call.report.missing_values_by_column = << << AnoTitulacion, 2 >> >>

\* The rows of d whose graduation year is a number outside [1990, 2030]
InvalidYearRows(d) ==
  IF HasCol(d, AnoTitulacion)
  THEN { i \in 1..NRows(d) :
           LET v == d.rows[i][ColPos(d, AnoTitulacion)]
           IN  v.k = "num" /\ (v.n < 1990 * Scale \/ v.n > 2030 * Scale) }
  ELSE {}

\* The report has one message for the invalid years, with their number, when
\* there are any, and none otherwise
YearsReported(in, r) ==
  LET about == SelectSeq(r.validation_errors, LAMBDA e : e[1] = "invalid_years")
  IN  IF InvalidYearRows(in) = {} THEN about = <<>>
      ELSE about = << << "invalid_years", Cardinality(InvalidYearRows(in)) >> >>

\* The rows of d that are not invalid-year rows, with their labels
WithoutInvalidYears(d) ==
  Concrete(TakeRows(d, TruePositions([ i \in 1..NRows(d) |-> i \notin InvalidYearRows(d) ], 1)))

\* C17 as stated: the business-rule check reports the rows whose year is
\* outside [1990, 2030] in one message, and clean_data removes exactly these
\* rows.
C17_CleanDataRemovesExactlyInvalidYears ==
  /\ (call.op = "validator.validate" /\ call.res.ok) => YearsReported(call.in, call.report)
  /\ (call.op = "validator.clean_data" /\ call.res.ok) =>
       call.res.data = WithoutInvalidYears(call.in)

\* Row i of d misses a required column, or has a year or a count out of
\* range, or repeats a row before it
Removable(d, i) ==
  \/ i \in InvalidYearRows(d)
  \/ \E k \in 1..Len(RequiredColumns) :
       HasCol(d, RequiredColumns[k]) /\ IsNa(d.rows[i][ColPos(d, RequiredColumns[k])])
  \/ /\ HasCol(d, CantidadTitulados)
     /\ LET v == d.rows[i][ColPos(d, CantidadTitulados)]
        IN  v.k # "num" \/ v.n < 0 \/ v.n > 10000 * Scale
  \/ \E j \in 1..(i - 1) : d.rows[j] = d.rows[i]

\* C17, amended: the business-rule check reports the rows whose year is
\* outside [1990, 2030] in one message bearing their number; clean_data
\* removes every one of these rows, and beside them only rows that miss a
\* required column, have a count out of range or repeat an earlier row; for
\* the years 1985, 2023, 2050 the check reports 2 and clean_data returns the
\* 2023 row alone.
C17_InvalidYearsCountedAndRemoved ==
  /\ (call.op = "validator.validate" /\ call.res.ok) =>
       /\ YearsReported(call.in, call.report)
       /\ call.in = ScenarioC =>
            << "invalid_years", 2 >> \in Range(call.report.validation_errors)
  /\ (call.op = "validator.clean_data" /\ call.res.ok) =>
       /\ InvalidYearRows(call.res.data) = {}
       /\ call.res.data.cols = call.in.cols
       /\ \A k \in 1..NRows(call.res.data) :
            /\ PositionOf(call.in, call.res.data.index[k]) # 0
            /\ call.res.data.rows[k] = call.in.rows[PositionOf(call.in, call.res.data.index[k])]
       /\ \A i \in 1..NRows(call.in) :
            PositionOf(call.res.data, call.in.index[i]) = 0 => Removable(call.in, i)
       /\ call.in = ScenarioC =>
            (call.res.data.rows = << << IntVal(2023) >> >> /\ call.res.data.index = << 1 >>)

\* clean_data was run on the years 1985, 2023, 2050
C17_Witness ==
  /\ call.op = "validator.clean_data"
  /\ call.in = ScenarioC
  /\ call.res.ok
  /\ NRows(call.res.data) = 1

\* The rows of d whose region value is there
RowsWithRegion(d) ==
  IF HasCol(d, RegionKey)
  THEN { i \in 1..NRows(d) : ~ IsNa(d.rows[i][ColPos(d, RegionKey)]) }
  ELSE {}

\* C18: validate counts a row as valid exactly when its region value is
\* there: up to 1000 rows valid_records is the number of such rows, beyond
\* it is extrapolated from them and never exceeds total_records.
C18_ValidMeansRegionPresent ==
  (call.op = "validator.validate" /\ call.res.ok) =>
    /\ call.report.valid_records <= call.report.total_records
    /\ NRows(call.in) <= SampleSize =>
         call.report.valid_records = Cardinality(RowsWithRegion(call.in))

\* C19: load_with_metadata, with metadata or without, turns an invalid
\* destination away with LoadingError and writes nothing, and raises
\* LoadingError when the file is missing or empty after the write; the file
\* the full pipeline leaves has a valid destination.
C19_EveryLoadValidatesDestination ==
  /\ call.op = "loader.load_with_metadata" =>
       /\ ~ ValidateDestination(call.destination) =>
            /\ ~ call.res.ok
            /\ Head(call.res.err) = "LoadingError"
            /\ ~ output.exists
       /\ call.io \in { "missing", "zero" } =>
            (~ call.res.ok /\ Head(call.res.err) = "LoadingError")
  /\ "LOAD" \in Range(completed) => ValidateDestination(output.path)

\* The lines of a file written for dataset d with the given metadata
ExpectedLines(d, metadata, lines) ==
  LET h == IF metadata = <<>> THEN 0 ELSE Len(metadata) + 2
  IN  /\ Len(lines) = h + 1 + NRows(d)
      /\ metadata # <<>> =>
           /\ lines[1] = << "# Metadata", <<>> >>
           /\ \A k \in 1..Len(metadata) : lines[k + 1] = << "# key: value", metadata[k] >>
           /\ lines[h] = << "# End Metadata", <<>> >>
      /\ lines[h + 1] = << "header", d.cols >>
      /\ \A i \in 1..NRows(d) :
           /\ lines[h + 1 + i][1] = "row"
           /\ Len(lines[h + 1 + i][2]) = NCols(d)
           /\ \A j \in 1..NCols(d) :
                lines[h + 1 + i][2][j] = CsvField(d.rows[i][j], d.dtypes[j])

\* C20: the file load_with_metadata writes with metadata starts with the
\* line '# Metadata', has one '# key: value' line for each entry in the
\* order of the map, then '# End Metadata', then the column names and one
\* line for each row; without metadata it starts with the column names.
C20_MetadataHeaderThenData ==
  /\ (call.op = "loader.load_with_metadata" /\ call.res.ok /\ call.io = "ok") =>
       /\ output.exists
       /\ output.path = call.destination
       /\ ExpectedLines(call.in, call.metadata, output.lines)
  /\ "LOAD" \in Range(completed) =>
       (output.exists /\ ExpectedLines(filtered, PipelineMetadata, output.lines))

\* A file was written with two metadata entries
C20_Witness ==
  /\ call.op = "loader.load_with_metadata"
  /\ call.res.ok
  /\ call.io = "ok"
  /\ Len(call.metadata) = 2
  /\ Len(output.lines) = 4 + 1 + NRows(call.in)
  /\ output.lines[4] = << "# End Metadata", <<>> >>

\* The same column names, the same number of rows and the same values
\* wherever either has one, whole numbers and floats being alike
SameContent(d, e) ==
  /\ ~ e.none
  /\ e.cols = d.cols
  /\ NRows(e) = NRows(d)
  /\ \A i \in 1..NRows(d), j \in 1..NCols(d) :
       IF IsNa(d.rows[i][j]) THEN IsNa(e.rows[i][j])
       ELSE /\ e.rows[i][j].k = d.rows[i][j].k
            /\ e.rows[i][j].s = d.rows[i][j].s
            /\ e.rows[i][j].n = d.rows[i][j].n

\* C21: a file the loader wrote, with a metadata header or without, is read
\* back by run_validation_only on its .csv path as a dataset with the row
\* count, the column names and the non-null values of the one written.
C21_WrittenFileReadsBack ==
  (call.op = "pipeline.run_validation_only" /\ call.data_source = "csv" /\ call.io = "ok") =>
    /\ "VALIDATE" \in Range(call.steps)
    /\ SameContent(call.in, call.res.data)

\* The calls that are handed a dataset by their caller
StageCalls ==
  { "cleaner.transform", "filter.transform", "filter.filter", "validator.validate",
    "validator.clean_data", "pipeline.get_regional_summary" }

C23_PartialRunsEnterOwnStages ==
  /\ call.op = "pipeline.run_extraction_only" => call.steps = << "EXTRACT" >>
  /\ call.op = "pipeline.get_regional_summary" =>
       IsPrefix(call.steps, << "EXTRACT", "SUMMARY" >>)
  /\ call.op = "pipeline.run_validation_only" =>
       IF call.data_source = "" THEN IsPrefix(call.steps, << "EXTRACT", "VALIDATE" >>)
       ELSE "EXTRACT" \notin Range(call.steps)

\* C24: an exception that leaves run_extraction_only or run_validation_only
\* is a domain error; get_regional_summary lets none out and reports a
\* failure under the key "error".
C24_PartialRunsRaiseDomainErrors ==
  /\ call.op \in { "pipeline.run_extraction_only", "pipeline.run_validation_only" } =>
       /\ call.escaped = call.res.err
       /\ call.escaped # NoExc => IsDomain(call.escaped)
  /\ call.op = "pipeline.get_regional_summary" =>
       /\ call.escaped = NoExc
       /\ ~ call.res.ok => call.summary.error

\* The operations of the orchestrator that run inside an operation logger
OperationOf(op) ==
  CASE op = "pipeline.run_extraction_only" -> "EXTRACTION_ONLY"
    [] op = "pipeline.run_validation_only" -> "VALIDATION_ONLY"
    [] op = "pipeline.get_regional_summary" -> "REGIONAL_SUMMARY"

\* C27: the start event of an operation of the orchestrator is followed by
\* one end event for the same operation once the operation is over, whether
\* it returned or raised, and by none before; the end event says success =
\* false exactly when an exception left the operation.
C27_OperationsAreBracketed ==
  /\ pc \in { "EXTRACT", "CLEAN", "FILTER", "VALIDATE", "LOAD", "FINISH", "EXCEPT" } =>
       events = << << "start", "FULL_ETL_PIPELINE" >> >>
  /\ pc = "RETURNED" =>
       events = << << "start", "FULL_ETL_PIPELINE" >>, << "end", "FULL_ETL_PIPELINE", TRUE >> >>
  /\ pc = "RAISED" =>
       /\ raised # NoExc
       /\ events = << << "start", "FULL_ETL_PIPELINE" >>, << "end", "FULL_ETL_PIPELINE", FALSE >> >>
  /\ call.op \in { "pipeline.run_extraction_only", "pipeline.run_validation_only",
                   "pipeline.get_regional_summary" } =>
       events = << << "start", OperationOf(call.op) >>,
                   << "end", OperationOf(call.op), call.res.err = NoExc >> >>

\* A full run has raised and its operation has ended as a failure
C27_Witness ==
  /\ pc = "RAISED"
  /\ Len(events) = 2
  /\ events[2] = << "end", "FULL_ETL_PIPELINE", FALSE >>

\* C28: the filter's table of accepted spellings and its target region are
\* the ones it was constructed with, whatever calls have been made.
C28_FilterStateIsConstant ==
  /\ table = InitialVariations
  /\ target \in Targets

\* C29: the handlers a pipeline's logger registered on construction stay
\* registered when further pipelines are constructed in the process.
C29_HandlersOutliveLaterPipelines ==
  \A k \in 1..pipelines : LoggerInit(k) \subseteq handlers

\* C25: a column whose name matches a textual pattern is treated as text by
\* _standardize_data_types whatever else its name matches: the step returns
\* and every text value of the column is the one that went in.
C25_TextualNameWins ==
  call.op = "cleaner.standardize_data_types" =>
    \A j \in 1..NCols(call.in) :
      MatchesAny(call.in.cols[j], TextColumnsPattern) =>
        /\ call.res.ok
        /\ \A i \in 1..NRows(call.in) :
             call.in.rows[i][j].k = "str" => call.res.data.rows[i][j] = call.in.rows[i][j]

\* The text columns with rows and no value: text by dtype, not numeric by name
EmptyTextColumns(d) ==
  { j \in 1..NCols(d) :
      /\ d.dtypes[j] = "object"
      /\ ~ MatchesAny(d.cols[j], NumericColumnsPattern)
      /\ NRows(d) > 0
      /\ MissingCount(d, j) = NRows(d) }

\* C26 as stated: a text column without a value comes out of
\* _handle_missing_values with 'Unknown' in every row.
C26_EmptyTextColumnIsFilledWithUnknown ==
  call.op = "cleaner.handle_missing_values" =>
    \A j \in EmptyTextColumns(call.in) :
      /\ call.res.ok
      /\ HasCol(call.res.data, call.in.cols[j])
      /\ \A i \in 1..NRows(call.res.data) :
           call.res.data.rows[i][ColPos(call.res.data, call.in.cols[j])] = Str(Unknown)

\* C26, amended: a text column without a value is all missing, so
\* _handle_missing_values drops it, and 'Unknown' is never filled in: every
\* 'Unknown' of the result was in the input.
C26_EmptyTextColumnIsDropped ==
  (call.op = "cleaner.handle_missing_values" /\ call.res.ok) =>
    /\ \A j \in EmptyTextColumns(call.in) : ~ HasCol(call.res.data, call.in.cols[j])
    /\ \A i \in 1..NRows(call.res.data), k \in 1..NCols(call.res.data) :
         call.res.data.rows[i][k] = Str(Unknown) =>
           call.in.rows[i][ColPos(call.in, call.res.data.cols[k])] = Str(Unknown)

\* A region column without a value went in and did not come out
C26_Witness ==
  /\ call.op = "cleaner.handle_missing_values"
  /\ call.res.ok
  /\ EmptyTextColumns(call.in) # {}
  /\ HasCol(call.in, RegionKey)
  /\ ~ HasCol(call.res.data, RegionKey)

\* The rows of e are rows of d, in the order and under the labels they have in d
IsSubFrame(e, d) ==
  /\ e.cols = d.cols
  /\ \A i \in 1..NRows(e) : \E k \in 1..NRows(d) :
       e.index[i] = d.index[k] /\ e.rows[i] = d.rows[k]
  /\ \A i, k \in 1..NRows(e) : i < k => e.index[i] < e.index[k]

\* Every value of the column, when the dataset has it, is a number in range
AllInRange(d, name, lo, hi) ==
  HasCol(d, name) => \A i \in 1..NRows(d) : InRange(d.rows[i][ColPos(d, name)], lo, hi)

====
